---- MODULE Spec2Model ----
(***************************************************************************)
(* Article structuring and amendment reconciliation of the BOE law        *)
(* parsers (scripts/boe_parser_new.py, scripts/extract_all_boe.py,         *)
(* scripts/extract_folder1_laws.py).                                       *)
(*                                                                         *)
(* Texts are sequences of one-character strings.  The Arabic alphabet is   *)
(* represented by ASCII stand-ins:                                         *)
(*   "a" "b" "c"  Arabic letters used as paragraph markers                 *)
(*   "x" "y" "t"  Arabic letters of running text                           *)
(*   "o"           first letter of an ordinal word ("o~" stands for one)   *)
(*   "1" "2"       digits                                                  *)
(*   "~"           tanwin (U+064B), outside the range U+0623..U+064A       *)
(***************************************************************************)
EXTENDS Integers, Sequences, FiniteSets, TLC

VARIABLES
    \* apply_amendments: its arguments, its working text, its loop position
    original_text, amendments, current_text, idx,
    \* the ordinal resolver: which function, its argument, its result
    resolver, heading, number,
    \* the law parser: which script, the article divs of the page, the loop
    \* position, the list law_data['articles']
    parser, soup, pos, articles,
    \* heading_stack of _parse_law
    heading_stack,
    \* the converter run on the finished law and its list of platform articles
    converter, platform,
    \* the findings of the compliance monitor on the finished law
    findings,
    \* the amendment extractor: which script, the items of the popup, the
    \* list it returns
    extractor, popup, extracted,
    \* the paragraph structurer: which function, its input text, the
    \* paragraphs it returns
    structurer, body_text, paras,
    \* main of extract_all_boe: the folder pages of the site, the ids with an
    \* output file in LAWS_DIR, existing_ids, state and the state file,
    \* args.limit, the position in folders, to_extract and the position in it
    listings, files, existing_ids, state, state_file, limit, folder, to_extract, law_i,
    total_extracted, total_errors, total_skipped,
    \* the paragraphs of a text container: the script, the children of hc and
    \* the paragraphs of _parse_article
    dom_script, hc_children, dom_paras,
    \* control position of the operation under way
    pc

applyVars == <<original_text, amendments, current_text, idx>>
ordinalVars == <<resolver, heading, number>>
lawVars == <<parser, soup, pos, articles, heading_stack, converter, platform, findings>>

popupVars == <<extractor, popup, extracted>>
parasVars == <<structurer, body_text, paras>>
mainVars ==
    <<listings, files, existing_ids, state, state_file, limit, folder, to_extract, law_i,
      total_extracted, total_errors, total_skipped>>
domVars == <<dom_script, hc_children, dom_paras>>

vars == <<applyVars, ordinalVars, lawVars, popupVars, parasVars, mainVars, domVars, pc>>

\* what the operations of one group leave alone
notApplyVars == <<ordinalVars, lawVars, popupVars, parasVars, mainVars, domVars>>
notOrdinalVars == <<applyVars, lawVars, popupVars, parasVars, mainVars, domVars>>
notLawVars == <<applyVars, ordinalVars, popupVars, parasVars, mainVars, domVars>>
notPopupVars == <<applyVars, ordinalVars, lawVars, parasVars, mainVars, domVars>>
notParasVars == <<applyVars, ordinalVars, lawVars, popupVars, mainVars, domVars>>
notMainVars == <<applyVars, ordinalVars, lawVars, popupVars, parasVars, domVars>>
notDomVars == <<applyVars, ordinalVars, lawVars, popupVars, parasVars, mainVars>>

----------------------------------------------------------------------------
(* Characters and character classes of the regular expressions.            *)

SP == " "
NL == "\n"
DASH == "-"
COLON == ":"
TANWIN == "~"

\* [أ-ي]: the Arabic letters
ArabicLetters == {"a", "b", "c", "o", "x", "y", "t"}

\* \s
IsSpace(ch) == ch \in {SP, NL}

IsArabicLetter(ch) == ch \in ArabicLetters

\* Python truthiness of an optional string: None and "" are falsy.
NoneText == <<"None">>

Falsy(s) == s = NoneText \/ s = <<>>

----------------------------------------------------------------------------
(* String helpers (str.strip, str.startswith, str.find, slicing).          *)

Max(S) == CHOOSE m \in S : \A n \in S : n <= m

Min(S) == CHOOSE m \in S : \A n \in S : m <= n

\* s[i-1:] matches p (1-based i)
HasPrefixAt(s, i, p) ==
    /\ i + Len(p) - 1 <= Len(s)
    /\ \A k \in 1..Len(p) : s[i + k - 1] = p[k]

StartsWith(s, p) == HasPrefixAt(s, 1, p)

\* p in s
Contains(s, p) == \E i \in 1..(Len(s) + 1) : HasPrefixAt(s, i, p)

\* str.strip()
Strip(s) ==
    LET keep == {i \in 1..Len(s) : ~IsSpace(s[i])}
    IN  IF keep = {} THEN <<>> ELSE SubSeq(s, Min(keep), Max(keep))

\* first index at or after i whose character is not whitespace (\s*, greedy)
RECURSIVE SkipSpace(_, _)
SkipSpace(s, i) ==
    IF i <= Len(s) /\ IsSpace(s[i]) THEN SkipSpace(s, i + 1) ELSE i

\* first index at or after i whose character is not an Arabic letter
RECURSIVE SkipLetters(_, _)
SkipLetters(s, i) ==
    IF i <= Len(s) /\ IsArabicLetter(s[i]) THEN SkipLetters(s, i + 1) ELSE i

\* first index at or after i that holds a newline or lies past the end ([^\n]*)
RECURSIVE SkipLine(_, _)
SkipLine(s, i) ==
    IF i <= Len(s) /\ s[i] # NL THEN SkipLine(s, i + 1) ELSE i

\* str.replace(old, new, 1): the first occurrence of old becomes new
ReplaceFirst(s, old, new) ==
    LET at == {i \in 1..Len(s) : HasPrefixAt(s, i, old)}
    IN  IF at = {} \/ old = <<>> THEN s
        ELSE LET i == Min(at)
             IN  SubSeq(s, 1, i - 1) \o new \o SubSeq(s, i + Len(old), Len(s))

----------------------------------------------------------------------------
\* apply_amendments: the paragraph pattern, with L the class of Arabic letters,
\*   para \s* - \s* ( [^\n]+ (?: \n (?! L+ \s* - ) [^\n]+ )* )

\* the negative lookahead's body [أ-ي]+\s*- at index i
NextParaAhead(s, i) ==
    LET j == SkipLetters(s, i)
        k == SkipSpace(s, j)
    IN  j > i /\ k <= Len(s) /\ s[k] = DASH

\* (?:\n(?!...)[^\n]+)* from the exclusive end e of what is matched so far:
\* one more line is taken while a newline follows, the line after it does not
\* open with letters and a dash, and that line is not empty
RECURSIVE ContinuationEnd(_, _)
ContinuationEnd(s, e) ==
    IF /\ e <= Len(s)
       /\ s[e] = NL
       /\ ~NextParaAhead(s, e + 1)
       /\ e + 1 <= Len(s)
       /\ s[e + 1] # NL
    THEN ContinuationEnd(s, SkipLine(s, e + 1))
    ELSE e

\* the pattern without its literal marker, \s*-\s*(...)
MatchEndAtNoLiteral(s, i, para) ==
    LET d == SkipSpace(s, i)
    IN  IF d > Len(s) \/ s[d] # DASH THEN 0
        ELSE LET w == SkipSpace(s, d + 1)
             IN  IF w <= Len(s) THEN ContinuationEnd(s, SkipLine(s, w))
                 ELSE 0

\* the exclusive end of the match that starts at index i, 0 when the pattern
\* does not match there (greedy quantifiers, with the backtracking of the
\* second \s* when the whitespace run reaches the end of the text)
MatchEndAt(s, i, para) ==
    LET d == SkipSpace(s, i + Len(para))
    IN  IF ~HasPrefixAt(s, i, para) \/ d > Len(s) \/ s[d] # DASH THEN 0
        ELSE LET w == SkipSpace(s, d + 1)
             IN  IF w <= Len(s) THEN ContinuationEnd(s, SkipLine(s, w))
                 ELSE LET ks == {k \in (d + 1)..Len(s) : s[k] # NL}
                      IN  IF ks = {} THEN 0
                          ELSE ContinuationEnd(s, Max(ks) + 1)

\* re.search(para_pattern, current_text): the leftmost start, 0 when none
SearchStart(s, para) ==
    LET hits == {i \in 1..(Len(s) + 1) : MatchEndAt(s, i, para) # 0}
    IN  IF hits = {} THEN 0 ELSE Min(hits)

\* match.group(0)
MatchedSpan(s, para) ==
    LET i == SearchStart(s, para)
    IN  SubSeq(s, i, MatchEndAt(s, i, para) - 1)

\* a test for the glued form f'{para}-' alone
StartsWithParaGlued(new_text, para) == StartsWith(new_text, para \o <<DASH>>)

\* new_text.startswith(f'{para} -') or new_text.startswith(f'{para}-')
StartsWithPara(new_text, para) ==
    \/ StartsWith(new_text, para \o <<SP, DASH>>)
    \/ StartsWith(new_text, para \o <<DASH>>)

\* the marker glued to the dash, f'{para}- {new_text}'
NewParaFullTight(para, new_text) ==
    IF StartsWithPara(new_text, para) THEN new_text
    ELSE para \o <<DASH, SP>> \o new_text

\* f'{para} - {new_text}', or new_text as-is when it already has the marker
NewParaFull(para, new_text) ==
    IF StartsWithPara(new_text, para) THEN new_text
    ELSE para \o <<SP, DASH, SP>> \o new_text

\* 'paragraph' not in amendment or 'new_text' not in amendment
Incomplete(amendment) ==
    \/ "paragraph" \notin DOMAIN amendment
    \/ "new_text" \notin DOMAIN amendment

\* a loop body that reads the fields with amendment.get(key, '') after
\* checking 'paragraph' alone
ApplyOneLenient(text, amendment) ==
    IF "paragraph" \notin DOMAIN amendment THEN text
    ELSE LET para == Strip(amendment.paragraph)
             new_text == IF "new_text" \in DOMAIN amendment
                         THEN Strip(amendment.new_text) ELSE <<>>
         IN  IF SearchStart(text, para) = 0 THEN text
             ELSE ReplaceFirst(text, MatchedSpan(text, para),
                               NewParaFull(para, new_text))

\* the body of the for loop: the working text after one amendment
ApplyOne(text, amendment) ==
    IF Incomplete(amendment) THEN text
    ELSE LET para == Strip(amendment.paragraph)
             new_text == Strip(amendment.new_text)
         IN  IF SearchStart(text, para) = 0 THEN text
             ELSE ReplaceFirst(text, MatchedSpan(text, para),
                               NewParaFull(para, new_text))

\* the for loop over amendments[i..]
RECURSIVE ApplyFrom(_, _, _)
ApplyFrom(text, amds, i) ==
    IF i > Len(amds) THEN text
    ELSE ApplyFrom(ApplyOne(text, amds[i]), amds, i + 1)

apply_amendments(orig, amds) ==
    IF Falsy(orig) \/ amds = <<>> THEN orig ELSE ApplyFrom(orig, amds, 1)

----------------------------------------------------------------------------
(* Inputs of the amendment applicator.                                     *)

MaxLines == 2
MaxAmendments == 2

\* Lines of an article body as the parsers produce them: non-empty, without
\* leading or trailing whitespace.
LetterMarkers == {<<"a">>, <<"b">>}

LetterLine(marker, body) == marker \o <<DASH, SP>> \o body

Lines ==
    { LetterLine(<<"a">>, <<"x">>),          \* a- x     lettered paragraph
      LetterLine(<<"b">>, <<"y">>),          \* b- y     lettered paragraph
      <<"1", DASH, SP, "x">>,                \* 1- x     numbered paragraph
      <<"o", TANWIN, COLON, SP, "x">>,       \* o~: x    ordinal-word clause
      <<"y">>,                               \* y        continuation line
      <<"x", SP, "a", DASH, SP, "y">> }      \* x a- y   marker inside prose

\* sep.join(ls)
RECURSIVE JoinWith(_, _)
JoinWith(ls, sep) ==
    IF ls = <<>> THEN <<>>
    ELSE IF Len(ls) = 1 THEN ls[1]
    ELSE ls[1] \o sep \o JoinWith(Tail(ls), sep)

JoinLines(ls) == JoinWith(ls, <<NL>>)

SeqsUpTo(S, n) == UNION {[1..k -> S] : k \in 0..n}

Texts == {JoinLines(ls) : ls \in SeqsUpTo(Lines, MaxLines)} \cup {NoneText}

Description == <<"d">>

\* Amendment records as extract_amendments builds them: 'description' always,
\* 'paragraph' and 'new_text' only when their patterns matched.
AmendmentRecords ==
    { [description |-> Description, paragraph |-> p, new_text |-> <<"t">>] :
        p \in {<<"a">>, <<"b", SP>>, <<"c">>} }
    \cup { [description |-> Description, paragraph |-> <<"a">>, new_text |-> t] :
              t \in {<<"a", DASH, SP, "t">>, <<"a", SP, DASH, SP, "y">>} }
    \cup { [description |-> Description, paragraph |-> <<"a">>],
           [description |-> Description, new_text |-> <<"t">>] }

AmendmentLists == SeqsUpTo(AmendmentRecords, MaxAmendments)

----------------------------------------------------------------------------
(* apply_amendments as a state machine: the call, one step per loop        *)
(* iteration, the return.  current_text holds the returned value at "done".*)

\* if not original_text or not amendments
ReturnsEarly(orig, amds) == Falsy(orig) \/ amds = <<>>

\* a return of the empty string in place of original_text
EarlyResultEmpty(orig) == <<>>

\* return original_text
EarlyResult(orig) == orig

\* the variables of the operations a specification does not run
ApplyIdle ==
    /\ original_text = NoneText
    /\ amendments = <<>>
    /\ current_text = NoneText
    /\ idx = 0

OrdinalIdle == resolver = "none" /\ heading = <<>> /\ number = 0

LawIdle ==
    /\ parser = "none"
    /\ soup = <<>>
    /\ pos = 0
    /\ articles = <<>>
    /\ heading_stack = <<>>
    /\ converter = "none"
    /\ platform = <<>>
    /\ findings = <<>>

PopupIdle == extractor = "none" /\ popup = <<>> /\ extracted = <<>>

ParasIdle == structurer = "none" /\ body_text = <<>> /\ paras = <<>>

MainIdle ==
    /\ listings = <<>>
    /\ files = {}
    /\ existing_ids = {}
    /\ state = <<>>
    /\ state_file = <<>>
    /\ limit = 0
    /\ folder = 0
    /\ to_extract = <<>>
    /\ law_i = 0
    /\ total_extracted = 0
    /\ total_errors = 0
    /\ total_skipped = 0

DomIdle == dom_script = "none" /\ hc_children = <<>> /\ dom_paras = <<>>

Init ==
    /\ original_text \in Texts
    /\ amendments \in AmendmentLists
    /\ current_text = NoneText
    /\ idx = 0
    /\ pc = "call"
    /\ OrdinalIdle
    /\ LawIdle
    /\ PopupIdle
    /\ ParasIdle
    /\ MainIdle
    /\ DomIdle

ApplyCall ==
    /\ pc = "call"
    /\ IF ReturnsEarly(original_text, amendments)
       THEN /\ current_text' = EarlyResult(original_text)
            /\ idx' = idx
            /\ pc' = "done"
       ELSE /\ current_text' = original_text
            /\ idx' = 1
            /\ pc' = "loop"
    /\ UNCHANGED <<original_text, amendments, notApplyVars>>

\* a loop that matches every amendment against original_text
ApplyStepOnOriginal ==
    /\ pc = "loop"
    /\ idx <= Len(amendments)
    /\ current_text' = ApplyOne(original_text, amendments[idx])
    /\ idx' = idx + 1
    /\ UNCHANGED <<original_text, amendments, pc, notApplyVars>>

ApplyStep ==
    /\ pc = "loop"
    /\ idx <= Len(amendments)
    /\ current_text' = ApplyOne(current_text, amendments[idx])
    /\ idx' = idx + 1
    /\ UNCHANGED <<original_text, amendments, pc, notApplyVars>>

ApplyReturn ==
    /\ pc = "loop"
    /\ idx > Len(amendments)
    /\ pc' = "done"
    /\ UNCHANGED <<applyVars, notApplyVars>>

Next == ApplyCall \/ ApplyStep \/ ApplyReturn

Spec == Init /\ [][Next]_vars

----------------------------------------------------------------------------
(* Paragraph markers as the structurer recognises them (para_pattern of    *)
(* extract_paragraphs): a letter, a numeral or an ordinal word, then a     *)
(* dash or a colon, then text.                                             *)

Digits == {"1", "2"}

OrdinalWord == <<"o", TANWIN>>

RECURSIVE SkipDigits(_, _)
SkipDigits(s, i) ==
    IF i <= Len(s) /\ s[i] \in Digits THEN SkipDigits(s, i + 1) ELSE i

\* the indexes just past a marker group that starts at index p
MarkerEnds(s, p) ==
    (IF p <= Len(s) /\ IsArabicLetter(s[p]) THEN {p + 1} ELSE {})
    \cup (IF p <= Len(s) /\ s[p] \in Digits THEN {SkipDigits(s, p)} ELSE {})
    \cup (IF HasPrefixAt(s, p, OrdinalWord) THEN {p + Len(OrdinalWord)} ELSE {})

\* re.match(para_pattern, line) on the line that starts at index p of s
MarkerLineAt(s, p) ==
    LET eol == SkipLine(s, p)
    IN  \E e \in MarkerEnds(s, p) :
            LET k == SkipSpace(s, e)
            IN  k < eol /\ s[k] \in {DASH, COLON} /\ k + 1 < eol

LineStarts(s) == {1} \cup {i + 1 : i \in {j \in 1..Len(s) : s[j] = NL}}

\* where the paragraph that holds index i ends: the newline before the next
\* marked line, or one past the end of the text
ParagraphEnd(s, i) ==
    LET nxt == {p \in LineStarts(s) : p > i /\ p <= Len(s) /\ MarkerLineAt(s, p)}
    IN  IF nxt = {} THEN Len(s) + 1 ELSE Min(nxt) - 1

----------------------------------------------------------------------------
(* Claims about the amendment applicator.                                  *)

InLoopStep == pc = "loop" /\ idx <= Len(amendments)

\* the amendment of this step has both fields and its pattern matches
Applies(text, amendment) ==
    /\ ~Incomplete(amendment)
    /\ SearchStart(text, Strip(amendment.paragraph)) # 0

\* C1: with an empty amendments list apply_amendments returns original_text
\* unchanged, for every original_text.
C1_EmptyAmendmentsIdentity ==
    (pc = "done" /\ amendments = <<>>) => current_text = original_text

C1_Witness == pc = "done" /\ amendments = <<>> /\ ~Falsy(original_text)

Bodies == {<<"x">>, <<"y">>}

\* the two-paragraph text and the single amendment of the claim
C2Case(X, Y, old, other) ==
    /\ original_text = LetterLine(X, old) \o <<NL>> \o LetterLine(Y, other)
    /\ Len(amendments) = 1
    /\ ~Incomplete(amendments[1])
    /\ Strip(amendments[1].paragraph) = X
    /\ ~StartsWith(Strip(amendments[1].new_text), X)

C2Result(sep) ==
    pc = "done" =>
        \A X \in LetterMarkers, Y \in LetterMarkers, old \in Bodies, other \in Bodies :
            C2Case(X, Y, old, other) =>
                current_text = X \o sep \o Strip(amendments[1].new_text)
                                 \o <<NL>> \o LetterLine(Y, other)

C3_SpanEndsAtNextMarker ==
    [][ (InLoopStep /\ Applies(current_text, amendments[idx])) =>
            LET para == Strip(amendments[idx].paragraph)
                i == SearchStart(current_text, para)
            IN  current_text' =
                    SubSeq(current_text, 1, i - 1)
                    \o NewParaFull(para, Strip(amendments[idx].new_text))
                    \o SubSeq(current_text, ParagraphEnd(current_text, i),
                              Len(current_text)) ]_vars

\* C4: an amendment record without 'paragraph' or without 'new_text' leaves
\* the working text as it was after the previous amendment, at every position
\* of the list.
C4_IncompleteLeavesText ==
    [][ (InLoopStep /\ Incomplete(amendments[idx])) =>
            current_text' = current_text ]_vars

\* an incomplete record in second position, after an amendment that changed
\* the text, has been processed
C4_Witness ==
    /\ pc = "loop"
    /\ idx = 3
    /\ Incomplete(amendments[2])
    /\ current_text # original_text

\* C5: an amendment whose marker does not occur in the text as amended so far
\* is skipped: the text is unchanged for that step, the loop goes on to the
\* next amendment, and a call that entered the loop returns only after every
\* amendment was processed.
C5_MissingMarkerSkipped ==
    /\ [][ ( /\ InLoopStep
             /\ ~Incomplete(amendments[idx])
             /\ ~Contains(current_text, Strip(amendments[idx].paragraph)) ) =>
                ( /\ current_text' = current_text
                  /\ idx' = idx + 1
                  /\ pc' = "loop" ) ]_vars
    /\ []( (pc = "done" /\ ~ReturnsEarly(original_text, amendments)) =>
                idx = Len(amendments) + 1 )

\* the first amendment's marker is absent and the second one was applied
C5_Witness ==
    /\ pc = "done"
    /\ Len(amendments) = 2
    /\ ~Incomplete(amendments[1])
    /\ ~Contains(original_text, Strip(amendments[1].paragraph))
    /\ current_text # original_text

\* the paragraph an applied amendment writes, spelled out: new_text as it
\* is when it opens with the marker and a dash (glued or after one space),
\* the marker, ' - ' and new_text otherwise
ExpectedParagraph(amendment) ==
    LET para == Strip(amendment.paragraph)
        nt == Strip(amendment.new_text)
    IN  IF \/ HasPrefixAt(nt, 1, para \o <<DASH>>)
           \/ HasPrefixAt(nt, 1, para \o <<SP, DASH>>)
        THEN nt
        ELSE para \o <<SP, DASH, SP>> \o nt

\* C16: amendments are processed in list order, each matched against the
\* text left by the ones before it: the result of one call on a list equals
\* the result of applying any tail of the list to the result of applying the
\* head before it, and of two applied amendments with the same marker the
\* final text holds the paragraph written by the later one.
C16_AppliedInOrderOnWorkingText ==
    pc = "done" =>
        /\ \A k \in 0..Len(amendments) :
               current_text =
                   apply_amendments(
                       apply_amendments(original_text, SubSeq(amendments, 1, k)),
                       SubSeq(amendments, k + 1, Len(amendments)))
        /\ ( /\ Len(amendments) = 2
             /\ Applies(original_text, amendments[1])
             /\ Applies(ApplyOne(original_text, amendments[1]), amendments[2])
             /\ Strip(amendments[1].paragraph) = Strip(amendments[2].paragraph) ) =>
                Contains(current_text, ExpectedParagraph(amendments[2]))

\* two applied amendments with the same marker and different new texts
C16_Witness ==
    /\ pc = "done"
    /\ Len(amendments) = 2
    /\ Applies(original_text, amendments[1])
    /\ Applies(ApplyOne(original_text, amendments[1]), amendments[2])
    /\ Strip(amendments[1].paragraph) = Strip(amendments[2].paragraph)
    /\ amendments[1].new_text # amendments[2].new_text
    /\ ~Contains(current_text, ExpectedParagraph(amendments[1]))

\* C17 (as claimed): the span an applied amendment replaces begins at the
\* start of a line; the marker followed by a dash inside the running text
\* of a line is never taken as the start of the span.
C17_SpanStartsAtLineStart ==
    [][ (InLoopStep /\ Applies(current_text, amendments[idx])) =>
            SearchStart(current_text, Strip(amendments[idx].paragraph))
                \in LineStarts(current_text) ]_vars

----------------------------------------------------------------------------
(* Numeral/ordinal resolver: extract_article_number (boe_parser_new.py and *)
(* its copy in test_parser.py) and _arabic_num (extract_all_boe.py,        *)
(* extract_folder1_laws.py).  The ordinal words are spelled letter by      *)
(* letter, one upper-case stand-in per Arabic letter, so that "word in     *)
(* text" and len(word) are those of the Arabic strings.                    *)

\* the words of the ordinal tables, the heading word and a word that is in no table
W ==
    [
      Hadiya |-> <<"A", "L", "H", "A", "D", "Y", "P">>,
      Thaniya |-> <<"A", "L", "V", "A", "N", "Y", "P">>,
      Thalitha |-> <<"A", "L", "V", "A", "L", "V", "P">>,
      Rabia |-> <<"A", "L", "R", "A", "B", "E", "P">>,
      Khamisa |-> <<"A", "L", "K", "A", "M", "S", "P">>,
      Sadisa |-> <<"A", "L", "S", "A", "D", "S", "P">>,
      Sabia |-> <<"A", "L", "S", "A", "B", "E", "P">>,
      Thamina |-> <<"A", "L", "V", "A", "M", "N", "P">>,
      Tasia |-> <<"A", "L", "T", "A", "S", "E", "P">>,
      Ashira |-> <<"A", "L", "E", "A", "X", "R", "P">>,
      Ula |-> <<"A", "L", "O", "W", "L", "I">>,
      Ashrata |-> <<"E", "X", "R", "P">>,
      Ishrun |-> <<"A", "L", "E", "X", "R", "W", "N">>,
      Thalathun |-> <<"A", "L", "V", "L", "A", "V", "W", "N">>,
      Arbaun |-> <<"A", "L", "O", "R", "B", "E", "W", "N">>,
      Khamsun |-> <<"A", "L", "K", "M", "S", "W", "N">>,
      Sittun |-> <<"A", "L", "S", "T", "W", "N">>,
      Sabun |-> <<"A", "L", "S", "B", "E", "W", "N">>,
      Thamanun |-> <<"A", "L", "V", "M", "A", "N", "W", "N">>,
      Tisun |-> <<"A", "L", "T", "S", "E", "W", "N">>,
      Mia |-> <<"A", "L", "M", "A", "Q", "P">>,
      Madda |-> <<"A", "L", "M", "A", "D", "P">>,
      Bad |-> <<"B", "E", "D">> ]

\* the stems of the teens and of the hundred
T ==
    [
      Ashr |-> <<"E", "X", "R">>,
      Thalath |-> <<"V", "L", "A", "V">>,
      Arba |-> <<"O", "R", "B", "E">>,
      Khams |-> <<"K", "M", "S">>,
      Sitt |-> <<"S", "T">>,
      Sab |-> <<"S", "B", "E">>,
      Thaman |-> <<"V", "M", "A", "N">>,
      Tis |-> <<"T", "S", "E">>,
      Mia |-> <<"M", "A", "Q">> ]

\* the conjunction prefix of the tens in a compound, " و"
WA == <<"W">>

\* Arabic-Indic digits are written "i0" .. "i9"
AsciiDigits == {"0", "1", "2", "3", "4", "5", "6", "7", "8", "9"}
IndicDigits == {"i0", "i1", "i2", "i3", "i4", "i5", "i6", "i7", "i8", "i9"}

\* str.maketrans of the Arabic-Indic digits, then the digit's value
DigitValue(ch) ==
    CASE ch \in {"0", "i0"} -> 0 [] ch \in {"1", "i1"} -> 1
      [] ch \in {"2", "i2"} -> 2 [] ch \in {"3", "i3"} -> 3
      [] ch \in {"4", "i4"} -> 4 [] ch \in {"5", "i5"} -> 5
      [] ch \in {"6", "i6"} -> 6 [] ch \in {"7", "i7"} -> 7
      [] ch \in {"8", "i8"} -> 8 [] ch \in {"9", "i9"} -> 9

\* None, and the ValueError of int() on a run that holds a non-digit
NoNumber == -1
ValueError == -2

\* ---- the literal table of extract_article_number, in its source order
arabic_numbers ==
    << <<W.Hadiya \o <<SP>> \o W.Ashrata, 11>>,
       <<W.Thaniya \o <<SP>> \o W.Ashrata, 12>>,
       <<W.Thalitha \o <<SP>> \o W.Ashrata, 13>>,
       <<W.Rabia \o <<SP>> \o W.Ashrata, 14>>,
       <<W.Khamisa \o <<SP>> \o W.Ashrata, 15>>,
       <<W.Sadisa \o <<SP>> \o W.Ashrata, 16>>,
       <<W.Sabia \o <<SP>> \o W.Ashrata, 17>>,
       <<W.Thamina \o <<SP>> \o W.Ashrata, 18>>,
       <<W.Tasia \o <<SP>> \o W.Ashrata, 19>>,
       <<W.Ishrun, 20>>,
       <<W.Hadiya \o <<SP>> \o WA \o W.Ishrun, 21>>,
       <<W.Thaniya \o <<SP>> \o WA \o W.Ishrun, 22>>,
       <<W.Thalitha \o <<SP>> \o WA \o W.Ishrun, 23>>,
       <<W.Rabia \o <<SP>> \o WA \o W.Ishrun, 24>>,
       <<W.Khamisa \o <<SP>> \o WA \o W.Ishrun, 25>>,
       <<W.Sadisa \o <<SP>> \o WA \o W.Ishrun, 26>>,
       <<W.Sabia \o <<SP>> \o WA \o W.Ishrun, 27>>,
       <<W.Thamina \o <<SP>> \o WA \o W.Ishrun, 28>>,
       <<W.Tasia \o <<SP>> \o WA \o W.Ishrun, 29>>,
       <<W.Thalathun, 30>>,
       <<W.Ula, 1>>, <<W.Thaniya, 2>>, <<W.Thalitha, 3>>, <<W.Rabia, 4>>,
       <<W.Khamisa, 5>>, <<W.Sadisa, 6>>, <<W.Sabia, 7>>, <<W.Thamina, 8>>,
       <<W.Tasia, 9>>, <<W.Ashira, 10>> >>

\* ---- the table _ORDINALS of _arabic_num, built as the module builds it
_tens ==
    << <<T.Ashr, 20>>, <<T.Thalath, 30>>, <<T.Arba, 40>>, <<T.Khams, 50>>,
       <<T.Sitt, 60>>, <<T.Sab, 70>>, <<T.Thaman, 80>>, <<T.Tis, 90>>,
       <<T.Mia, 100>> >>

_ones ==
    << <<W.Hadiya, 1>>, <<W.Thaniya, 2>>, <<W.Thalitha, 3>>, <<W.Rabia, 4>>,
       <<W.Khamisa, 5>>, <<W.Sadisa, 6>>, <<W.Sabia, 7>>, <<W.Thamina, 8>>,
       <<W.Tasia, 9>> >>

_standalone ==
    << <<W.Ishrun, 20>>, <<W.Thalathun, 30>>, <<W.Arbaun, 40>>,
       <<W.Khamsun, 50>>, <<W.Sittun, 60>>, <<W.Sabun, 70>>,
       <<W.Thamanun, 80>>, <<W.Tisun, 90>>, <<W.Mia, 100>>,
       <<W.Ashira, 10>> >>

RECURSIVE Flatten(_)
Flatten(ss) == IF ss = <<>> THEN <<>> ELSE Head(ss) \o Flatten(Tail(ss))

\* the inner loop over _standalone: the first entry whose value is tval
StandaloneFor(tval) ==
    LET hits == {k \in 1..Len(_standalone) : _standalone[k][2] = tval}
    IN  IF hits = {} THEN <<>> ELSE <<_standalone[Min(hits)]>>

\* what one (otext, ttext) pair of the nested loops appends
CompoundsOf(one, ten) ==
    (IF ten[2] = 20 THEN << <<one[1] \o <<SP>> \o W.Ashrata, one[2] + 10>> >>
     ELSE <<>>)
    \o [k \in 1..Len(StandaloneFor(ten[2])) |->
            <<one[1] \o <<SP>> \o WA \o StandaloneFor(ten[2])[k][1],
              one[2] + ten[2]>>]

Compounds ==
    Flatten([i \in 1..Len(_ones) |->
                Flatten([j \in 1..Len(_tens) |-> CompoundsOf(_ones[i], _tens[j])])])

Units ==
    << <<W.Ula, 1>>, <<W.Thaniya, 2>>, <<W.Thalitha, 3>>, <<W.Rabia, 4>>,
       <<W.Khamisa, 5>>, <<W.Sadisa, 6>>, <<W.Sabia, 7>>, <<W.Thamina, 8>>,
       <<W.Tasia, 9>> >>

\* list.sort(key=lambda x: -len(x[0])): stable, longest word first.  The
\* entry at index i lands after the longer entries and after the entries of
\* its own length that precede it.
SortedPosition(table, i) ==
    1 + Cardinality({j \in 1..Len(table) :
                        \/ Len(table[j][1]) > Len(table[i][1])
                        \/ Len(table[j][1]) = Len(table[i][1]) /\ j < i})

SortLongestFirst(table) ==
    [k \in 1..Len(table) |->
        table[CHOOSE i \in 1..Len(table) : SortedPosition(table, i) = k]]

_ORDINALS == SortLongestFirst(Compounds \o _standalone \o Units)

\* for word, num in table: if word in text: return num
FirstWordIn(table, text) ==
    LET hits == {i \in 1..Len(table) : Contains(text, table[i][1])}
    IN  IF hits = {} THEN NoNumber ELSE table[Min(hits)][2]

RECURSIVE SkipClass(_, _, _)
SkipClass(s, i, class) ==
    IF i <= Len(s) /\ s[i] \in class THEN SkipClass(s, i + 1, class) ELSE i

\* int(run.translate(trans))
RECURSIVE IntOf(_, _)
IntOf(run, acc) ==
    IF run = <<>> THEN acc
    ELSE IF Head(run) \notin AsciiDigits \cup IndicDigits THEN ValueError
    ELSE IntOf(Tail(run), acc * 10 + DigitValue(Head(run)))

\* re.search over a character class, then int(): the first run of the class
FirstNumber(text, class) ==
    LET at == {i \in 1..Len(text) : text[i] \in class}
    IN  IF at = {} THEN NoNumber
        ELSE IntOf(SubSeq(text, Min(at), SkipClass(text, Min(at), class) - 1), 0)

\* boe_parser_new.extract_article_number
extract_article_number(text) ==
    LET n == FirstWordIn(arabic_numbers, text)
    IN  IF n # NoNumber THEN n ELSE FirstNumber(text, AsciiDigits \cup IndicDigits)

\* test_parser.extract_article_number: the same table; its character class
\* [٠-٩\\d] holds the Arabic-Indic digits, the backslash and the letter d
extract_article_number_copy(text) ==
    LET n == FirstWordIn(arabic_numbers, text)
    IN  IF n # NoNumber THEN n ELSE FirstNumber(text, IndicDigits \cup {"\\", "d"})

\* extract_all_boe._arabic_num and extract_folder1_laws._arabic_num
_arabic_num(text) ==
    IF text = <<>> THEN NoNumber
    ELSE LET t == Strip(text)
             n == FirstWordIn(_ORDINALS, t)
         IN  IF n # NoNumber THEN n ELSE FirstNumber(t, AsciiDigits \cup IndicDigits)

Resolvers == {"extract_article_number", "test_parser", "_arabic_num"}

Resolve(fn, text) ==
    CASE fn = "extract_article_number" -> extract_article_number(text)
      [] fn = "test_parser" -> extract_article_number_copy(text)
      [] fn = "_arabic_num" -> _arabic_num(text)

\* the ordinal table a resolver scans
TableOf(fn) ==
    IF fn = "_arabic_num" THEN _ORDINALS ELSE arabic_numbers

----------------------------------------------------------------------------
(* The resolver as a state machine: one call of one of the three functions *)
(* on one heading text.                                                    *)

Heading(words) == JoinWith(<<W.Madda>> \o words, <<SP>>)

\* "the article <ordinal>" for every word of both tables, a compound followed
\* by "after the hundred", digits in both scripts, and texts without a number
Headings ==
    {Heading(<<_ORDINALS[i][1]>>) : i \in 1..Len(_ORDINALS)}
    \cup {Heading(<<arabic_numbers[i][1]>>) : i \in 1..Len(arabic_numbers)}
    \cup { Heading(<<W.Hadiya \o <<SP>> \o W.Ashrata, W.Bad, W.Mia>>),
           Heading(<< <<"(", "i3", "i4", ")">> >>),
           <<"3", "4">>,
           <<"u">>,
           W.Madda,
           <<>> }

InitOrdinal ==
    /\ resolver \in Resolvers
    /\ heading \in Headings
    /\ number = NoNumber
    /\ pc = "resolve"
    /\ ApplyIdle
    /\ LawIdle
    /\ PopupIdle
    /\ ParasIdle
    /\ MainIdle
    /\ DomIdle

ResolveHeading ==
    /\ pc = "resolve"
    /\ number' = Resolve(resolver, heading)
    /\ pc' = "resolved"
    /\ UNCHANGED <<resolver, heading, notOrdinalVars>>

NextOrdinal == ResolveHeading

SpecOrdinal == InitOrdinal /\ [][NextOrdinal]_vars

\* a table word built from a unit and a ten
IsCompound(word) == Contains(word, <<SP>>)

\* C10 (as claimed): for every heading that contains a compound ordinal of the
\* resolver's table, the resolver returns the value of that compound, never
\* the value of a shorter ordinal word inside it.
C10_CompoundOrdinalResolved ==
    pc = "resolved" =>
        \A i \in 1..Len(TableOf(resolver)) :
            ( /\ IsCompound(TableOf(resolver)[i][1])
              /\ Contains(heading, TableOf(resolver)[i][1]) ) =>
                number = TableOf(resolver)[i][2]

----------------------------------------------------------------------------
(* Article parsing: parse_article / parse_law_html (boe_parser_new.py) and *)
(* _parse_article / _parse_law (extract_all_boe.py, and the same code in   *)
(* extract_folder1_laws.py).                                               *)
(*                                                                         *)
(* An article div is its class markers, its h3 heading, the elements and   *)
(* strings below it in document order (each with the index of its parent,  *)
(* 0 for the article div itself), the string of its body, and the entries  *)
(* of the amendment popup its link refers to.                              *)

MaxNodes == 3
MaxEntries == 1
MaxArticles == 3

Parsers == {"boe_parser_new", "extract_all_boe", "extract_folder1_laws"}

ClassMarkers == {"canceled", "changed-article"}

NodeKinds == {"HTMLContainer", "popup-list", "text"}

\* the string of every text node inside a popup-list region
PopupText == <<"P">>

TATWEEL == "_"

\* container.find_parent chain: the elements above node i
RECURSIVE Ancestors(_, _)
Ancestors(nodes, i) ==
    IF i = 0 \/ nodes[i].parent = 0 THEN {}
    ELSE {nodes[i].parent} \cup Ancestors(nodes, nodes[i].parent)

\* a sequence of nodes is the preorder listing of a tree whose strings are
\* leaves
WellFormed(nodes) ==
    /\ \A i \in DOMAIN nodes : nodes[i].parent < i
    /\ \A i \in DOMAIN nodes :
           nodes[i].parent # 0 =>
               /\ nodes[nodes[i].parent].kind # "text"
               /\ nodes[i].parent \in {i - 1} \cup Ancestors(nodes, i - 1)

Subtrees ==
    UNION { {nodes \in [1..n -> [kind : NodeKinds, parent : 0..(n - 1)]] :
                WellFormed(nodes)} : n \in 0..MaxNodes }

\* find_parent('div', class_='popup-list') is not None
InPopup(nodes, i) ==
    \E a \in Ancestors(nodes, i) : nodes[a].kind = "popup-list"

\* the first HTMLContainer of find_all that has no popup-list ancestor; 0 is
\* None
MainContainer(nodes) ==
    LET cs == {i \in DOMAIN nodes :
                  nodes[i].kind = "HTMLContainer" /\ ~InPopup(nodes, i)}
    IN  IF cs = {} THEN 0 ELSE Min(cs)

RECURSIVE InOrder(_)
InOrder(S) == IF S = {} THEN <<>> ELSE <<Min(S)>> \o InOrder(S \ {Min(S)})

\* the strings below container c, in document order
Strings(adiv, c) ==
    LET below == InOrder({i \in DOMAIN adiv.nodes :
                             /\ adiv.nodes[i].kind = "text"
                             /\ c \in Ancestors(adiv.nodes, i)})
    IN  [k \in DOMAIN below |->
            IF InPopup(adiv.nodes, below[k]) THEN PopupText ELSE adiv.body]

\* str.split(sep) for a one-character separator
RECURSIVE SplitOn(_, _)
SplitOn(s, ch) ==
    LET at == {i \in 1..Len(s) : s[i] = ch}
    IN  IF at = {} THEN <<s>>
        ELSE <<SubSeq(s, 1, Min(at) - 1)>>
                 \o SplitOn(SubSeq(s, Min(at) + 1, Len(s)), ch)

NonEmpty(s) == s # <<>>

\* ' '.join(line.split()) for every line, empty lines dropped, '\n'.join
CleanLines(text) ==
    LET lines == SplitOn(text, NL)
        cleaned == [k \in DOMAIN lines |->
                       JoinWith(SelectSeq(SplitOn(lines[k], SP), NonEmpty), <<SP>>)]
    IN  JoinLines(SelectSeq(cleaned, NonEmpty))

\* html_copy.get_text(separator=' ') followed by the line clean-up
get_text(adiv, c) == CleanLines(JoinWith(Strings(adiv, c), <<SP>>))

NotTatweel(ch) == ch # TATWEEL

_clean(text) ==
    IF Falsy(text) THEN <<>> ELSE CleanLines(SelectSeq(text, NotTatweel))

\* decode_contents with every tag replaced by a space, then _clean
_container_to_text(adiv, c) ==
    IF c = 0 THEN <<>> ELSE _clean(JoinWith(Strings(adiv, c), <<SP>>))

----------------------------------------------------------------------------
(* Paragraph structurers: _paras_from_text of extract_all_boe.py and of    *)
(* extract_folder1_laws.py, extract_paragraphs of boe_parser_new.py and    *)
(* the <p> branch of its extract_paragraphs_from_html.                     *)

Paragraph(marker, text, level) ==
    [marker |-> marker, text |-> text, level |-> level]

\* [أ-ي] standing alone as a marker. The letter "o" abbreviates the several
\* letters of an ordinal word, so it is no one-letter marker.
SingleLetters == ArabicLetters \ {"o"}

NoMatch == [ok |-> FALSE]

\* an optional bracket at index i ([\(]? and [\)]?)
AfterParen(line, i, ch) == IF i <= Len(line) /\ line[i] = ch THEN i + 1 ELSE i

\* the tail \s*[seps]\s*(.+)$ of a marker pattern from index t of a stripped
\* line, group 1 being line[b..e-1]
MarkedTail(line, b, e, t, seps) ==
    LET s == SkipSpace(line, t)
        g == SkipSpace(line, s + 1)
    IN  IF s <= Len(line) /\ line[s] \in seps /\ g <= Len(line)
        THEN [ok |-> TRUE, group1 |-> SubSeq(line, b, e - 1),
              group2 |-> SubSeq(line, g, Len(line))]
        ELSE NoMatch

\* the alternatives of group 1 tried in the order of the pattern: ends
\* lists the index just past each alternative that matches at b
RECURSIVE FirstMatch(_, _, _, _, _)
FirstMatch(line, b, ends, closing, seps) ==
    IF ends = <<>> THEN NoMatch
    ELSE LET e == Head(ends)
             t == IF closing THEN AfterParen(line, e, ")") ELSE e
             m == MarkedTail(line, b, e, t, seps)
         IN  IF m.ok THEN m
             ELSE FirstMatch(line, b, Tail(ends), closing, seps)

\* [0-9]+ | [٠-٩]+
DigitsEnd(line, b) ==
    IF SkipDigits(line, b) > b THEN <<SkipDigits(line, b)>> ELSE <<>>

\* [أ-ي]
LetterEnd(line, b) ==
    IF b <= Len(line) /\ line[b] \in SingleLetters THEN <<b + 1>> ELSE <<>>

\* جـ
JeemEnd(line, b) ==
    IF HasPrefixAt(line, b, <<"c", TATWEEL>>) THEN <<b + 2>> ELSE <<>>

\* أولاً? ... عاشراً?: the word with its tanwin, then without it
OrdinalEnds(line, b) ==
    IF HasPrefixAt(line, b, OrdinalWord) THEN <<b + 2, b + 1>>
    ELSE IF HasPrefixAt(line, b, <<"o">>) THEN <<b + 1>>
    ELSE <<>>

\* أولاً ... عاشراً: the tanwin is required
OrdinalWordEnd(line, b) ==
    IF HasPrefixAt(line, b, OrdinalWord) THEN <<b + 2>> ELSE <<>>

\* the separators are [-–—.] in _RE_NUM and _RE_LET, [:–—-] in _RE_ORD and
\* [-:] in para_pattern and numbered_pattern
_RE_NUM(line) ==
    LET b == AfterParen(line, 1, "(")
    IN  FirstMatch(line, b, DigitsEnd(line, b), TRUE, {DASH, "."})

_RE_LET(line) ==
    LET b == AfterParen(line, 1, "(")
    IN  FirstMatch(line, b, LetterEnd(line, b) \o JeemEnd(line, b), TRUE, {DASH, "."})

_RE_ORD(line) == FirstMatch(line, 1, OrdinalEnds(line, 1), FALSE, {COLON, DASH})

\* re.match(para_pattern, line) of extract_paragraphs
para_pattern(line) ==
    FirstMatch(line, 1,
               LetterEnd(line, 1) \o JeemEnd(line, 1) \o DigitsEnd(line, 1)
                   \o OrdinalWordEnd(line, 1),
               FALSE, {DASH, COLON})

\* re.match(numbered_pattern, line) of extract_paragraphs_from_html
numbered_pattern(line) ==
    FirstMatch(line, 1,
               DigitsEnd(line, 1) \o LetterEnd(line, 1) \o JeemEnd(line, 1),
               FALSE, {DASH, COLON})

\* re.match(definition_pattern, line): ^([^:]+):$
definition_pattern(line) ==
    /\ Len(line) >= 2
    /\ line[Len(line)] = COLON
    /\ \A i \in 1..(Len(line) - 1) : line[i] # COLON

\* raw.strip(), a trailing dash or tatweel removed, then the hyphen
_make_marker(raw, add_hyphen) ==
    LET r == Strip(raw)
        bare == IF r # <<>> /\ r[Len(r)] \in {DASH, TATWEEL}
                THEN Strip(SubSeq(r, 1, Len(r) - 1)) ELSE r
    IN  IF add_hyphen THEN bare \o <<DASH>> ELSE bare

\* [l.strip() for l in text.split('\n') if l.strip()]
StrippedLines(text) ==
    LET lines == SplitOn(text, NL)
    IN  SelectSeq([k \in DOMAIN lines |-> Strip(lines[k])], NonEmpty)

\* len(line.split())
WordCount(line) == Len(SelectSeq(SplitOn(line, SP), NonEmpty))

\* _paras_from_text of extract_all_boe.py: every line is tried as ordinal,
\* numbered, lettered, and is plain otherwise
_paras_from_text(text) ==
    LET ParaOfLine(line) ==
            LET ord == _RE_ORD(line)
                num == _RE_NUM(line)
                let == _RE_LET(line)
            IN  IF ord.ok
                THEN Paragraph(Strip(ord.group1) \o <<COLON>>, Strip(ord.group2), 0)
                ELSE IF num.ok
                THEN Paragraph(_make_marker(num.group1, TRUE), Strip(num.group2), 1)
                ELSE IF let.ok
                THEN Paragraph(_make_marker(let.group1, TRUE), Strip(let.group2), 2)
                ELSE Paragraph(<<>>, line, 0)
        lines == StrippedLines(text)
        result == [k \in DOMAIN lines |-> ParaOfLine(lines[k])]
    IN  IF Falsy(text) THEN <<Paragraph(<<>>, <<>>, 0)>>
        ELSE IF result # <<>> THEN result
        ELSE <<Paragraph(<<>>, text, 0)>>

\* _paras_from_text of extract_folder1_laws.py: every line is tried as
\* numbered, lettered, ordinal, and is plain otherwise
_paras_from_text_folder1(text) ==
    LET ParaOfLine(line) ==
            LET num == _RE_NUM(line)
                let == _RE_LET(line)
                ord == _RE_ORD(line)
            IN  IF num.ok
                THEN Paragraph(_make_marker(num.group1, TRUE), Strip(num.group2), 1)
                ELSE IF let.ok
                THEN Paragraph(_make_marker(let.group1, TRUE), Strip(let.group2), 2)
                ELSE IF ord.ok
                THEN Paragraph(_make_marker(ord.group1, FALSE) \o <<COLON>>,
                               Strip(ord.group2), 1)
                ELSE Paragraph(<<>>, line, 0)
        lines == StrippedLines(text)
    IN  IF Falsy(text) THEN <<>>
        ELSE [k \in DOMAIN lines |-> ParaOfLine(lines[k])]

\* the letters that extract_paragraphs puts at level 2
LevelTwoMarkers == {<<l>> : l \in SingleLetters} \cup {<<"c", TATWEEL>>}

\* the while loop of the definitions branch of extract_paragraphs, i the
\* index of the line it looks at
RECURSIVE DefinitionsFrom(_, _)
DefinitionsFrom(lines, i) ==
    IF i > Len(lines) THEN <<>>
    ELSE LET line == Strip(lines[i])
         IN  IF line = <<>> THEN DefinitionsFrom(lines, i + 1)
             ELSE IF definition_pattern(line)
             THEN LET term == Strip(SubSeq(line, 1, Len(line) - 1))
                      rest == {j \in (i + 1)..Len(lines) : Strip(lines[j]) # <<>>}
                      j == IF rest = {} THEN Len(lines) + 1 ELSE Min(rest)
                      definition_text ==
                          IF rest = {} \/ definition_pattern(Strip(lines[j]))
                          THEN <<>> ELSE Strip(lines[j])
                  IN  <<Paragraph(term \o <<COLON>>, definition_text, 0)>>
                          \o DefinitionsFrom(lines, j)
             ELSE (IF WordCount(line) > 3 THEN <<Paragraph(<<>>, line, 0)>>
                   ELSE <<>>)
                      \o DefinitionsFrom(lines, i + 1)

\* extract_paragraphs of boe_parser_new.py; MarkedParaOfLine is one line of
\* its marker loop, <<>> when the line is dropped
extract_paragraphs(text) ==
    IF Falsy(text) THEN <<>>
    ELSE LET MarkedParaOfLine(line) ==
                 LET m == para_pattern(line)
                 IN  IF m.ok
                     THEN <<Paragraph(m.group1 \o <<SP, DASH>>, Strip(m.group2),
                                      IF m.group1 \in LevelTwoMarkers THEN 2 ELSE 1)>>
                     ELSE IF WordCount(line) > 2 THEN <<Paragraph(<<>>, line, 0)>>
                     ELSE <<>>
             lines == SplitOn(text, NL)
             stripped == StrippedLines(text)
             has_markers == \E k \in DOMAIN stripped : para_pattern(stripped[k]).ok
             has_definitions ==
                 Cardinality({k \in DOMAIN lines :
                                 definition_pattern(Strip(lines[k]))}) > 2
         IN  IF has_definitions THEN DefinitionsFrom(lines, 1)
             ELSE IF ~has_markers
             THEN [k \in DOMAIN stripped |-> Paragraph(<<>>, stripped[k], 0)]
             ELSE Flatten([k \in DOMAIN stripped |-> MarkedParaOfLine(stripped[k])])

\* line.split(':', 1)
SplitOnce(line) ==
    LET at == Min({i \in DOMAIN line : line[i] = COLON})
    IN  <<SubSeq(line, 1, at - 1), SubSeq(line, at + 1, Len(line))>>

\* the <p> branch of extract_paragraphs_from_html: the paragraphs of a <p>
\* whose lines, separated by <br>, are those of text. DefinitionParaOfLine
\* and NumberedParaOfLine are the bodies of the loops of the definitions and
\* of the numbered branch.
ParagraphsOfP(text) ==
    LET HasColon(line) == \E i \in DOMAIN line : line[i] = COLON
        ShortTermColon(line) ==
            HasColon(line) /\ WordCount(SplitOn(line, COLON)[1]) <= 3
        DefinitionParaOfLine(line, i) ==
            IF HasColon(line)
            THEN LET parts == SplitOnce(line)
                 IN  IF WordCount(Strip(parts[1])) <= 3
                     THEN <<Paragraph(Strip(parts[1]) \o <<COLON>>,
                                      Strip(parts[2]), 0)>>
                     ELSE <<Paragraph(<<>>, line, 0)>>
            ELSE IF i > 1 THEN <<Paragraph(<<>>, line, 0)>>
            ELSE <<>>
        NumberedParaOfLine(line) ==
            LET m == numbered_pattern(line)
            IN  IF m.ok
                THEN <<Paragraph(m.group1 \o <<SP, DASH>>, Strip(m.group2),
                                 IF m.group1 \in LevelTwoMarkers THEN 2 ELSE 1)>>
                ELSE <<>>
        lines == StrippedLines(text)
        definition_count == Cardinality({k \in DOMAIN lines : ShortTermColon(lines[k])})
        numbered == {k \in DOMAIN lines : numbered_pattern(lines[k]).ok}
        intro == SubSeq(lines, 1,
                        IF numbered = {} THEN Len(lines) ELSE Min(numbered) - 1)
        full_text == JoinWith(SelectSeq(SplitOn(JoinWith(SplitOn(text, NL), <<SP>>),
                                                SP), NonEmpty), <<SP>>)
    IN  IF definition_count > 2 /\ Len(lines) > 3
        THEN Flatten([k \in DOMAIN lines |-> DefinitionParaOfLine(lines[k], k)])
        ELSE IF Cardinality(numbered) >= 2
        THEN (IF intro # <<>> THEN <<Paragraph(<<>>, JoinWith(intro, <<SP>>), 0)>>
              ELSE <<>>)
             \o Flatten([k \in DOMAIN lines |-> NumberedParaOfLine(lines[k])])
        ELSE IF full_text # <<>> THEN <<Paragraph(<<>>, full_text, 0)>>
        ELSE <<>>

\* extract_paragraphs_from_html on a container whose only child is a <p>
\* holding text, with the fall-back to extract_paragraphs of the container's
\* get_text(separator='\n', strip=True)
extract_paragraphs_from_html(text) ==
    LET paragraphs == ParagraphsOfP(text)
    IN  IF paragraphs # <<>> THEN paragraphs
        ELSE extract_paragraphs(JoinLines(StrippedLines(text)))

\* An item of the amendment popup (div.article_item_popup): whether it has
\* an h3 and a PDF link, and its HTMLContainer, <<>> when it has none, else
\* <<found>> where found holds the description text and what the paragraph
\* and new-text patterns matched in it.
PopupItem(h3, container, pdf) == [h3 |-> h3, container |-> container, pdf |-> pdf]

Title == <<"h">>
PdfUrl == <<"u">>

HasContainer(item) == item.container # <<>>

\* extract_amendments, the loop over the items: an item without a container
\* leaves the dict empty and is not appended; otherwise 'description'
\* always, 'paragraph' and 'new_text' when their patterns matched
extract_amendment_items(items) ==
    LET with == SelectSeq(items, HasContainer)
    IN  [k \in DOMAIN with |-> with[k].container[1]]

\* what _extract_amendments takes from the container: the same, with the

\* The phrases of a description: 'مرسوم ملكي' is written MRSWM MLkY, 'أمر
\* ملكي' OMR MLkY, 'قرار مجلس الوزراء' GRAR MJLS ALWZRAU and 'رقم' RGM.
RoyalDecree == <<"M", "R", "S", "W", "M", SP, "M", "L", "k", "Y">>
CabinetDecision ==
    <<"G", "R", "A", "R", SP, "M", "J", "L", "S", SP, "A", "L", "W", "Z", "R", "A", "U">>

\* the keys decree and source of amd for the description t: decree is group
\* 1 of (?:الأمر|المرسوم)\s+الملكي?\s+رقم\s+[\(]?([^\)]+)[\)]? at its first
\* match, source comes from the substring tests
DecreeAndSource(t) ==
    LET RoyalOrder == <<"O", "M", "R", SP, "M", "L", "k", "Y">>
        \* the index where group 1 starts for a match that starts at i, else 0
        GroupAt(i, word) ==
            LET b == SkipSpace(t, i + Len(word))
                c == IF b + 5 <= Len(t) /\ t[b + 5] = "Y" THEN b + 6 ELSE b + 5
                d == SkipSpace(t, c)
                g == AfterParen(t, SkipSpace(t, d + 3), "(")
            IN  IF /\ HasPrefixAt(t, i, word)
                   /\ b > i + Len(word)
                   /\ HasPrefixAt(t, b, <<"A", "L", "M", "L", "k">>)
                   /\ d > c
                   /\ HasPrefixAt(t, d, <<"R", "G", "M">>)
                   /\ SkipSpace(t, d + 3) > d + 3
                   /\ g <= Len(t) /\ t[g] # ")"
                THEN g ELSE 0
        StartAt(i) == Max({GroupAt(i, <<"A", "L", "O", "M", "R">>),
                           GroupAt(i, <<"A", "L", "M", "R", "S", "W", "M">>)})
        matches == {i \in DOMAIN t : StartAt(i) > 0}
        g1 == StartAt(Min(matches))
        closing == {j \in g1..Len(t) : t[j] = ")"}
        group1 == SubSeq(t, g1, IF closing = {} THEN Len(t) ELSE Min(closing) - 1)
    IN  (IF matches # {} THEN [decree |-> _clean(group1)] ELSE <<>>)
        @@ (IF Contains(t, RoyalDecree) \/ Contains(t, RoyalOrder)
            THEN [source |-> RoyalDecree]
            ELSE IF Contains(t, CabinetDecision) THEN [source |-> CabinetDecision]
            ELSE <<>>)

\* matched marker stripped and stored as 'affected_paragraph'
ContainerFields(found) ==
    LET keys == {IF f = "paragraph" THEN "affected_paragraph" ELSE f :
                    f \in DOMAIN found}
    IN  [f \in keys |->
            IF f = "affected_paragraph" THEN Strip(found.paragraph)
            ELSE found[f]]
        @@ DecreeAndSource(found.description)

\* the dict amd that _extract_amendments builds for one item
AmdOf(item) ==
    (IF item.h3 THEN [article_title |-> Title] ELSE <<>>)
    @@ (IF HasContainer(item) THEN ContainerFields(item.container[1]) ELSE <<>>)
    @@ (IF item.pdf THEN [pdf_url |-> PdfUrl] ELSE <<>>)

NotEmptyDict(amd) == DOMAIN amd # {}

\* _extract_amendments, the loop over the items: if amd: append
_extract_amendment_items(items) ==
    SelectSeq([k \in DOMAIN items |-> AmdOf(items[k])], NotEmptyDict)

extract_amendments(adiv) == extract_amendment_items(adiv.history)

_extract_amendments(adiv) == _extract_amendment_items(adiv.history)

\* two independent ifs: the amended marker is tested last and overrides
parse_article_status(adiv) ==
    LET first == IF "canceled" \in adiv.classes THEN "canceled" ELSE "active"
    IN  IF "changed-article" \in adiv.classes THEN "amended" ELSE first

\* if / elif: the canceled marker is tested first
_parse_article_status(adiv) ==
    IF "canceled" \in adiv.classes THEN "canceled"
    ELSE IF "changed-article" \in adiv.classes THEN "amended"
    ELSE "active"

\* the value None of an article parser
NoArticle == [none |-> TRUE]

\* extract_paragraphs_from_html on container c of an article div: the
\* children of the containers of these divs are strings and divs, so only
\* the strings longer than 10 give paragraphs, and without any the text of
\* get_text(separator='\n', strip=True) goes to extract_paragraphs
ParagraphsOfStrings(adiv, c) ==
    LET LongEnough(text) == Len(text) > 10
        children == InOrder({i \in DOMAIN adiv.nodes :
                                /\ adiv.nodes[i].kind = "text"
                                /\ adiv.nodes[i].parent = c})
        direct == SelectSeq([k \in DOMAIN children |-> Strip(adiv.body)], LongEnough)
        below == Strings(adiv, c)
        stripped == SelectSeq([k \in DOMAIN below |-> Strip(below[k])], NonEmpty)
    IN  IF direct # <<>>
        THEN [k \in DOMAIN direct |-> Paragraph(<<>>, direct[k], 0)]
        ELSE extract_paragraphs(JoinLines(stripped))

parse_article(adiv) ==
    LET status == parse_article_status(adiv)
        h3 == adiv.h3
        number_text == IF h3 = NoneText THEN NoneText ELSE Strip(h3)
        article_number == IF h3 # NoneText /\ Contains(h3, W.Madda)
                          THEN extract_article_number(h3) ELSE NoNumber
        html_container == MainContainer(adiv.nodes)
        orig == IF html_container = 0 THEN NoneText
                ELSE get_text(adiv, html_container)
        amds == IF status = "amended" THEN extract_amendments(adiv) ELSE <<>>
        text == IF status = "amended" THEN apply_amendments(orig, amds)
                ELSE orig
        paragraphs == IF status = "amended" THEN extract_paragraphs(text)
                      ELSE ParagraphsOfStrings(adiv, html_container)
    IN  IF Falsy(text) THEN NoArticle
        ELSE [number |-> article_number, number_text |-> number_text, text |-> text,
              original_text |-> orig, status |-> status, amendments |-> amds,
              paragraphs |-> paragraphs]

\* the letters of the heading and ordinal words, all in [أ-ي]
WordLetters ==
    {"A", "B", "D", "E", "H", "I", "K", "L", "M", "N", "O", "P", "Q", "R",
     "S", "T", "V", "W", "X", "Y"}

ShortThreshold == 20

\* re.findall(r"المادة\s+(ال[أ-ي]+)", text): the starts of its matches
InnerHeads(text) ==
    {i \in 1..Len(text) :
        /\ HasPrefixAt(text, i, W.Madda)
        /\ LET j == SkipSpace(text, i + Len(W.Madda))
           IN  /\ j > i + Len(W.Madda)
               /\ HasPrefixAt(text, j, <<"A", "L">>)
               /\ j + 2 <= Len(text)
               /\ text[j + 2] \in WordLetters \cup ArabicLetters}

\* the quality gates of _parse_article
QualityFlags(text, status, article_number) ==
    (IF ~Falsy(text) /\ Len(Strip(text)) < ShortThreshold /\ status # "canceled"
     THEN <<"suspected_short">> ELSE <<>>)
    \o (IF /\ ~Falsy(text)
           /\ article_number # NoNumber
           /\ Cardinality(InnerHeads(text)) > 1
        THEN <<"suspected_scramble">> ELSE <<>>)

\* _parse_article of the script. The containers of these divs hold no list
\* and no table, so _paras_from_container returns the script's
\* _paras_from_text of the container text, which is also the fall-back.
_parse_article(script, adiv) ==
    LET status == _parse_article_status(adiv)
        number_text == IF adiv.h3 = NoneText THEN <<>> ELSE _clean(Strip(adiv.h3))
        article_number == IF Contains(number_text, W.Madda)
                          THEN _arabic_num(number_text) ELSE NoNumber
        hc == MainContainer(adiv.nodes)
        text_path_a == _container_to_text(adiv, hc)
        amds == IF status = "amended" THEN _extract_amendments(adiv) ELSE <<>>
        flags == QualityFlags(text_path_a, status, article_number)
        paragraphs == IF script = "extract_all_boe" THEN _paras_from_text(text_path_a)
                      ELSE _paras_from_text_folder1(text_path_a)
    IN  IF hc = 0 THEN NoArticle
        ELSE [number |-> article_number, number_text |-> number_text,
              text |-> text_path_a, original_text |-> text_path_a,
              status |-> status, amendments |-> amds, paragraphs |-> paragraphs]
             @@ (IF flags # <<>> THEN [quality_flags |-> flags] ELSE <<>>)

ParseArticleWith(script, adiv) ==
    IF script = "boe_parser_new" THEN parse_article(adiv)
    ELSE _parse_article(script, adiv)

\* if article: law_data['articles'].append(article)
AppendArticle(list, art) == IF art = NoArticle THEN list ELSE Append(list, art)

----------------------------------------------------------------------------
(* Pages.                                                                  *)

H_First == Heading(<<W.Ula>>)
H_TwentySecond == Heading(<<W.Thaniya \o <<SP>> \o WA \o W.Ishrun>>)

BodyTexts == {LetterLine(<<"a">>, <<"x">>), <<"y">>}

\* the entries of an amendment popup: one names paragraph ( a ) and gives
\* its new text, the other only describes the change
PopupEntries ==
    { PopupItem(TRUE, <<[description |-> Description, paragraph |-> <<"a", SP>>,
                        new_text |-> <<"t">>]>>, FALSE),
      PopupItem(TRUE, <<[description |-> Description]>>, FALSE) }

Histories == SeqsUpTo(PopupEntries, MaxEntries)

ArticleDiv(classes, h3, nodes, body, history, popup_item) ==
    [classes |-> classes, h3 |-> h3, nodes |-> nodes, body |-> body,
     history |-> history, popup_item |-> popup_item, headings |-> <<>>]

\* every article div of up to MaxNodes nodes
ArticleDivs ==
    { ArticleDiv(classes, H_First, nodes, body, history, FALSE) :
        classes \in SUBSET ClassMarkers, nodes \in Subtrees,
        body \in BodyTexts, history \in Histories }

Node(kind, parent) == [kind |-> kind, parent |-> parent]

PlainNodes == <<Node("HTMLContainer", 0), Node("text", 1)>>
PopupOnlyNodes == <<Node("popup-list", 0), Node("HTMLContainer", 1), Node("text", 2)>>
EmptyContainerNodes == <<Node("HTMLContainer", 0)>>

\* a body of n letters
BodyOfLength(n) == [i \in 1..n |-> "x"]

\* the article divs that laws of several articles are made of: an ordinary
\* article, one whose only container is inside a popup, one whose container
\* is empty, an amended one, a popup item, and articles, one of them
\* canceled, whose bodies are just below and at the short-text threshold,
\* and articles, with and without a heading, whose body holds the headings
\* of two articles
LawArticleDivs ==
    { ArticleDiv({}, H_First, PlainNodes, <<"y">>, <<>>, FALSE),
      ArticleDiv({}, H_TwentySecond, PopupOnlyNodes, <<"y">>, <<>>, FALSE),
      ArticleDiv({}, NoneText, EmptyContainerNodes, <<"y">>, <<>>, FALSE),
      ArticleDiv({"changed-article"}, H_TwentySecond, PlainNodes,
                 LetterLine(<<"a">>, <<"x">>),
                 <<PopupItem(TRUE, <<[description |-> Description,
                                      paragraph |-> <<"a", SP>>,
                                      new_text |-> <<"t">>]>>, FALSE)>>, FALSE),
      ArticleDiv({}, NoneText, PlainNodes, <<"y">>, <<>>, TRUE),
      ArticleDiv({}, H_First, PlainNodes, BodyOfLength(ShortThreshold - 1), <<>>, FALSE),
      ArticleDiv({}, H_First, PlainNodes, BodyOfLength(ShortThreshold), <<>>, FALSE),
      ArticleDiv({"canceled"}, H_First, PlainNodes, BodyOfLength(ShortThreshold - 1),
                 <<>>, FALSE),
      ArticleDiv({}, H_First, PlainNodes, H_First \o <<SP>> \o H_TwentySecond,
                 <<>>, FALSE),
      ArticleDiv({}, NoneText, PlainNodes, H_First \o <<SP>> \o H_TwentySecond,
                 <<>>, FALSE) }

\* Structural headings.  'الباب' is written ALBAB, 'الفصل' ALFCL, 'المبحث'
\* ALMBHV, 'القسم' ALGSM, 'الجزء' ALJZU and 'الملحق' ALMLHG.
_STRUCT_ORDER ==
    [kw \in {<<"A", "L", "B", "A", "B">>, <<"A", "L", "J", "Z", "U">>,
             <<"A", "L", "M", "L", "H", "G">>} |-> 0]
    @@ [kw \in {<<"A", "L", "G", "S", "M">>, <<"A", "L", "F", "C", "L">>} |-> 1]
    @@ [kw \in {<<"A", "L", "M", "B", "H", "V">>} |-> 2]

\* the first keyword of _STRUCT_KW the text starts with, or that stands
\* before the first colon of the text; None when there is none
_is_structural(text) ==
    LET _STRUCT_KW == << <<"A", "L", "B", "A", "B">>, <<"A", "L", "F", "C", "L">>,
                         <<"A", "L", "M", "B", "H", "V">>, <<"A", "L", "G", "S", "M">>,
                         <<"A", "L", "J", "Z", "U">>, <<"A", "L", "M", "L", "H", "G">> >>
        Found(i) == \/ StartsWith(text, _STRUCT_KW[i])
                    \/ /\ Contains(text, <<COLON>>)
                       /\ Contains(Head(SplitOn(text, COLON)), _STRUCT_KW[i])
        hits == {i \in DOMAIN _STRUCT_KW : Found(i)}
    IN  IF hits = {} THEN NoneText ELSE _STRUCT_KW[Min(hits)]

\* adiv.find_all_previous("h3") for the div at position p, in document
\* order: the h3 elements standing before each div and the h3 of each
\* earlier div
find_all_previous(doc, p) ==
    Flatten([q \in 1..p |->
                doc[q].headings
                \o (IF q < p /\ doc[q].h3 # NoneText THEN <<doc[q].h3>> ELSE <<>>)])

\* the heading stack after the 'for prev_h3' loop of _parse_law for the div
\* at position p: the nearest structural h3 before the div, if there is
\* one, is put at its level; None is written NoneText
UpdateHeadingStack(stack, doc, p) ==
    LET previous == find_all_previous(doc, p)
        texts == [i \in DOMAIN previous |-> _clean(Strip(previous[i]))]
        structural == {i \in DOMAIN texts : _is_structural(texts[i]) # NoneText}
        t == texts[Max(structural)]
        lvl == _STRUCT_ORDER[_is_structural(t)]
        cut == SubSeq(stack, 1, Min({lvl, Len(stack)}))
        padded == cut \o [i \in 1..(lvl + 1 - Len(cut)) |-> NoneText]
    IN  IF structural = {} THEN stack ELSE [padded EXCEPT ![lvl + 1] = t]

\* headings of a part, a chapter, a second part, a section, a title that is
\* not a structural one and one that names its keyword before a colon
Part1 == <<"A", "L", "B", "A", "B", SP, "1">>
Chapter1 == <<"A", "L", "F", "C", "L", SP, "1">>
Part2 == <<"A", "L", "B", "A", "B", SP, "2">>
Section1 == <<"A", "L", "M", "B", "H", "V", SP, "1">>

HeadingRuns ==
    {<<>>, <<Part1>>, <<Chapter1>>, <<Part1, Chapter1>>, <<Part2>>, <<Section1>>,
     <<<<"x", "y">>>>, <<<<"x", SP, "A", "L", "J", "Z", "U", COLON, SP, "y">>>>}

MaxHeaded == 2

\* laws with structural headings before their articles; the container of
\* some articles is empty
HeadedPages ==
    SeqsUpTo({[ArticleDiv({}, h3, nodes, <<"y">>, <<>>, FALSE) EXCEPT !.headings = run] :
                 h3 \in {H_First}, nodes \in {PlainNodes, EmptyContainerNodes},
                 run \in HeadingRuns}, MaxHeaded)

Pages ==
    {<<adiv>> : adiv \in ArticleDivs} \cup SeqsUpTo(LawArticleDivs, MaxArticles)
    \cup HeadedPages

----------------------------------------------------------------------------
(* The article loop of parse_law_html / _parse_law.                        *)

InitLaw ==
    /\ parser \in Parsers
    /\ soup \in Pages
    /\ pos = 1
    /\ articles = <<>>
    /\ heading_stack = <<>>
    /\ converter = "none"
    /\ platform = <<>>
    /\ findings = <<>>
    /\ pc = "articles"
    /\ ApplyIdle
    /\ OrdinalIdle
    /\ PopupIdle
    /\ ParasIdle
    /\ MainIdle
    /\ DomIdle

\* 'article_item_popup' in the div's classes: continue
SkipPopupItem ==
    /\ pc = "articles"
    /\ pos <= Len(soup)
    /\ soup[pos].popup_item
    /\ pos' = pos + 1
    /\ UNCHANGED <<parser, soup, articles, heading_stack, converter, platform, findings,
                   pc, notLawVars>>

ParseArticleDiv ==
    /\ pc = "articles"
    /\ pos <= Len(soup)
    /\ ~soup[pos].popup_item
    /\ heading_stack' = IF parser = "boe_parser_new" THEN heading_stack
                        ELSE UpdateHeadingStack(heading_stack, soup, pos)
    /\ LET art == ParseArticleWith(parser, soup[pos])
           heading_context == SelectSeq(heading_stack', LAMBDA h : h # NoneText)
       IN  articles' = AppendArticle(articles,
                           IF art = NoArticle \/ parser = "boe_parser_new" THEN art
                           ELSE art @@ [heading_context |-> heading_context])
    /\ pos' = pos + 1
    /\ UNCHANGED <<parser, soup, converter, platform, findings, pc, notLawVars>>

ReturnLaw ==
    /\ pc = "articles"
    /\ pos > Len(soup)
    /\ pc' = "law_done"
    /\ UNCHANGED <<parser, soup, pos, articles, heading_stack, converter, platform,
                   findings, notLawVars>>

----------------------------------------------------------------------------
(* Conversion of a finished law to the platform format:                    *)
(* convert_boe_to_platform of boe_to_platform.py and of simple_convert.py. *)

Converters == {"boe_to_platform", "simple_convert"}

\* article['number'] or 0: None and 0 are falsy
NumberOrZero(n) == IF n = NoNumber \/ n = 0 THEN 0 ELSE n

\* the status metadata boe_to_platform adds: tags for an amended or a
\* canceled article, nothing for an active one
StatusTags(status) ==
    CASE status = "amended" -> [tags |-> <<"amended">>]
      [] status = "canceled" -> [tags |-> <<"canceled">>]
      [] OTHER -> <<>>

\* one platform_article of boe_to_platform.convert_boe_to_platform
boe_to_platform_article(article) ==
    [number |-> NumberOrZero(article.number),
     text |-> article.text,
     number_text |-> article.number_text] @@ StatusTags(article.status)

\* one article of simple_convert.convert_boe_to_platform
simple_convert_article(a) ==
    [number |-> NumberOrZero(a.number),
     number_text |-> a.number_text,
     text |-> a.text,
     status |-> a.status,
     amendments |-> a.amendments,
     tags |-> <<>>]

convert_boe_to_platform(script, list) ==
    [k \in DOMAIN list |->
        IF script = "boe_to_platform" THEN boe_to_platform_article(list[k])
        ELSE simple_convert_article(list[k])]

ConvertLaw ==
    /\ pc = "law_done"
    /\ \E script \in Converters :
           /\ converter' = script
           /\ platform' = convert_boe_to_platform(script, articles)
    /\ pc' = "converted"
    /\ UNCHANGED <<parser, soup, pos, articles, heading_stack, findings, notLawVars>>

----------------------------------------------------------------------------
(* The compliance monitor on the law file an extraction script wrote to    *)
(* LAWS_DIR: the article checks of scan_file of legal_compliance_monitor.  *)

\* None is written "None"
ALLOWED_ARTICLE_STATUSES == {"active", "amended", "repealed", "", "None"}

\* the codes of the findings of scan_file on the articles of a law, in the
\* order they are appended.  Of PLACEHOLDER_PATTERNS only the run of three
\* dots can occur in a text over the letters used here.
scan_file(list) ==
    LET parse_article_number(number_value) ==
            IF number_value = NoNumber THEN NoNumber ELSE number_value
        Finding(code, k) == [code |-> code, location |-> k]
        OfArticle(k) ==
            (IF parse_article_number(list[k].number) = NoNumber
             THEN <<Finding("INVALID_ARTICLE_NUMBER", k)>> ELSE <<>>)
            \o (IF Strip(list[k].text) = <<>>
                THEN <<Finding("EMPTY_ARTICLE_TEXT", k)>>
                ELSE IF Contains(list[k].text, <<".", ".", ".">>)
                     THEN <<Finding("PLACEHOLDER_TEXT", k)>> ELSE <<>>)
            \o (IF list[k].status \notin ALLOWED_ARTICLE_STATUSES
                THEN <<Finding("UNKNOWN_ARTICLE_STATUS", k)>> ELSE <<>>)
        OfNumbered == {k \in DOMAIN list : parse_article_number(list[k].number) # NoNumber}
        numbers == {list[k].number : k \in OfNumbered}
        duplicate_numbers ==
            {n \in numbers : Cardinality({k \in OfNumbered : list[k].number = n}) > 1}
        sorted == CHOOSE q \in [1..Cardinality(duplicate_numbers) -> duplicate_numbers] :
                      \A i, j \in DOMAIN q : i < j => q[i] < q[j]
        missing == (1..Max(numbers)) \ numbers
    IN  Flatten([k \in DOMAIN list |-> OfArticle(k)])
        \o (IF numbers = {} THEN <<>>
            ELSE [i \in DOMAIN sorted |-> Finding("DUPLICATE_ARTICLE_NUMBER", sorted[i])]
                 \o (IF missing # {} THEN <<Finding("ARTICLE_NUMBER_GAPS", 0)>>
                     ELSE <<>>))

\* the monitor scans the file _extract_one wrote for the finished law
ScanLaw ==
    /\ pc = "law_done"
    /\ parser # "boe_parser_new"
    /\ findings' = scan_file(articles)
    /\ pc' = "scanned"
    /\ UNCHANGED <<parser, soup, pos, articles, heading_stack, converter, platform,
                   notLawVars>>

NextLaw == SkipPopupItem \/ ParseArticleDiv \/ ReturnLaw \/ ConvertLaw \/ ScanLaw

SpecLaw == InitLaw /\ [][NextLaw]_vars

\* the step that emitted a record for the article div at pos
Emitted == pc = "articles" /\ Len(articles') = Len(articles) + 1

\* the amendments of a record as the applicator reads them: the targeted
\* marker under the key 'paragraph'
ForApplicator(amds) ==
    [k \in DOMAIN amds |->
        LET keys == {IF f = "affected_paragraph" THEN "paragraph" ELSE f :
                        f \in DOMAIN amds[k]}
        IN  [f \in keys |->
                IF f = "paragraph" /\ "affected_paragraph" \in DOMAIN amds[k]
                THEN amds[k].affected_paragraph
                ELSE amds[k][f]]]

\* C6 (as claimed): the text of every emitted Article record is the result
\* of applying the record's amendments, in order, to its original_text, and
\* equals original_text when the record has no amendments.
C6_TextIsAppliedOriginal ==
    \A k \in 1..Len(articles) :
        /\ articles[k].text =
               apply_amendments(articles[k].original_text,
                                ForApplicator(articles[k].amendments))
        /\ articles[k].amendments = <<>> =>
               articles[k].text = articles[k].original_text

\* the status the claim gives to a set of class markers
ClaimedStatus(classes) ==
    IF "canceled" \in classes THEN "canceled"
    ELSE IF "changed-article" \in classes THEN "amended"
    ELSE "active"

\* C7 (as claimed): the status of an emitted record is 'canceled' whenever
\* the article div carries the canceled marker, also together with the
\* amended marker; 'amended' only with the amended marker alone; 'active'
\* with neither.
C7_CanceledWins ==
    [][Emitted =>
          articles'[Len(articles')].status = ClaimedStatus(soup[pos].classes)]_vars

\* C8 (as claimed): wherever the popup region sits in the article subtree,
\* the original_text of an emitted record contains no text of a popup
\* region.
C8_NoPopupTextInOriginal ==
    \A k \in 1..Len(articles) :
        ~Contains(articles[k].original_text, PopupText)

\* the article has an HTMLContainer with no popup-list above it
HasOuterContainer(adiv) ==
    \E i \in DOMAIN adiv.nodes :
        /\ adiv.nodes[i].kind = "HTMLContainer"
        /\ \A a \in Ancestors(adiv.nodes, i) : adiv.nodes[a].kind # "popup-list"

\* C9 (as claimed): an article without a text container outside a popup
\* region gives no record, and the finished law holds, in document order,
\* one record for every other article.
C9_OnlyContainerlessDropped ==
    pc = "law_done" =>
        LET kept == InOrder({i \in DOMAIN soup :
                                ~soup[i].popup_item /\ HasOuterContainer(soup[i])})
        IN  /\ Len(articles) = Len(kept)
            /\ \A k \in DOMAIN kept :
                   [f \in DOMAIN articles[k] \ {"heading_context"} |-> articles[k][f]]
                       = ParseArticleWith(parser, soup[kept[k]])

\* C11 (as claimed): an article whose number could not be parsed keeps the
\* unknown number through the conversion; no converted article carries 0
\* in its place.
C11_UnknownNumberKept ==
    pc = "converted" =>
        \A k \in DOMAIN articles :
            articles[k].number = NoNumber => platform[k].number = NoNumber

----------------------------------------------------------------------------
(* The amendment extractors on one popup.                                  *)

MaxPopupItems == 2

\* descriptions that name a royal decree with and without the article,
\* one that names a decree and the cabinet, and one that names the cabinet
Descriptions ==
    { <<"A", "L", "M", "R", "S", "W", "M", SP, "A", "L", "M", "L", "k", "Y", SP,
        "R", "G", "M", SP, "(", "M", "1", ")">>,
      RoyalDecree \o <<SP, "R", "G", "M", SP, "1">>,
      CabinetDecision \o <<SP, "A", "L", "O", "M", "R", SP, "A", "L", "M", "L", "k", "Y",
                           SP, "R", "G", "M", SP, "2">>,
      CabinetDecision }

\* what the patterns can find in a container
ContainerFindings ==
    { [description |-> d] : d \in Descriptions } \cup
    { [description |-> Description],
      [description |-> Description, paragraph |-> <<"a", SP>>],
      [description |-> Description, paragraph |-> <<"a", SP>>, new_text |-> <<"t">>] }

PopupItems ==
    { PopupItem(h3, container, pdf) :
        h3 \in BOOLEAN,
        container \in {<<>>} \cup {<<found>> : found \in ContainerFindings},
        pdf \in BOOLEAN }

InitPopup ==
    /\ extractor \in Parsers
    /\ popup \in SeqsUpTo(PopupItems, MaxPopupItems)
    /\ extracted = <<>>
    /\ pc = "popup"
    /\ ApplyIdle
    /\ OrdinalIdle
    /\ LawIdle
    /\ ParasIdle
    /\ MainIdle
    /\ DomIdle

ExtractAmendments ==
    /\ pc = "popup"
    /\ extracted' = IF extractor = "boe_parser_new"
                    THEN extract_amendment_items(popup)
                    ELSE _extract_amendment_items(popup)
    /\ pc' = "extracted"
    /\ UNCHANGED <<extractor, popup, notPopupVars>>

NextPopup == ExtractAmendments

SpecPopup == InitPopup /\ [][NextPopup]_vars

\* C15 (as claimed): every amendment record an extractor returns has a
\* description, whichever of heading, text container and PDF link the popup
\* item has.
C15_DescriptionAlwaysPresent ==
    pc = "extracted" =>
        \A k \in DOMAIN extracted : "description" \in DOMAIN extracted[k]

\* C23: a record with a decree has the royal-decree source; a record has
\* the cabinet-decision source only when its description names the cabinet
\* decision and no decree was found in it; any other record has no source.
C23_DecreeIsRoyal ==
    (pc = "extracted" /\ extractor # "boe_parser_new") =>
        \A k \in DOMAIN extracted :
            LET amd == extracted[k]
                royal == "decree" \in DOMAIN amd
                cabinet == /\ "description" \in DOMAIN amd
                           /\ Contains(amd.description, CabinetDecision)
                source == IF "source" \in DOMAIN amd THEN amd.source ELSE NoneText
            IN  /\ royal => source = RoyalDecree
                /\ source = CabinetDecision => cabinet /\ ~royal
                /\ (~royal /\ ~cabinet) => source = NoneText

\* C14 (as claimed): a record of _parse_article carries suspected_short
\* exactly when its status is not 'canceled' and its text is shorter than
\* the threshold, for every length from 0 on.
C14_ShortFlagIff ==
    LET HasFlag(article, flag) ==
            /\ "quality_flags" \in DOMAIN article
            /\ \E i \in DOMAIN article.quality_flags :
                   article.quality_flags[i] = flag
    IN  parser # "boe_parser_new" =>
            \A k \in DOMAIN articles :
                HasFlag(articles[k], "suspected_short") <=>
                    ( /\ articles[k].status # "canceled"
                      /\ Len(articles[k].text) < ShortThreshold )

C24_ScrambleFlagIff ==
    LET HasFlag(article, flag) ==
            /\ "quality_flags" \in DOMAIN article
            /\ \E i \in DOMAIN article.quality_flags :
                   article.quality_flags[i] = flag
    IN  parser # "boe_parser_new" =>
            \A k \in DOMAIN articles :
                HasFlag(articles[k], "suspected_scramble") <=>
                    Cardinality(InnerHeads(articles[k].text)) > 1

\* C29: a law produced by the article parsers never yields a finding
\* UNKNOWN_ARTICLE_STATUS in the monitor's scan: every status the parsers
\* write (active, amended, canceled) is an allowed one.
C29_NoUnknownStatus ==
    \A i \in DOMAIN findings : findings[i].code # "UNKNOWN_ARTICLE_STATUS"

\* C25: the heading_context of every article lists, outermost first, the
\* headings active at the article's position: for each level the nearest
\* preceding heading of that level that no later heading of an outer level
\* has closed.
C25_HeadingContextActive ==
    LET KeptPos == {q \in 1..(pos - 1) : /\ ~soup[q].popup_item
                                          /\ ParseArticleWith(parser, soup[q]) # NoArticle}
        PosOf(k) == CHOOSE q \in KeptPos : Cardinality({r \in KeptPos : r <= q}) = k
        Active(p) ==
            LET previous == find_all_previous(soup, p)
                texts == [i \in DOMAIN previous |-> _clean(Strip(previous[i]))]
                LevelOf(i) == _STRUCT_ORDER[_is_structural(texts[i])]
                structural == {i \in DOMAIN texts : _is_structural(texts[i]) # NoneText}
                Open(l) == {i \in structural :
                               /\ LevelOf(i) = l
                               /\ \A j \in structural : j > i => LevelOf(j) >= l}
                AtLevel(l) == IF Open(l) = {} THEN <<>> ELSE <<texts[Max(Open(l))]>>
            IN  AtLevel(0) \o AtLevel(1) \o AtLevel(2)
    IN  parser # "boe_parser_new" =>
            \A k \in DOMAIN articles : articles[k].heading_context = Active(PosOf(k))

\* C26: the record emitted for an article is the one the loop body gives
\* for that article alone, with a fresh heading stack: nothing is carried
\* over from the articles processed before it.
C26_ArticleAlone ==
    LET KeptPos == {q \in 1..(pos - 1) : /\ ~soup[q].popup_item
                                          /\ ParseArticleWith(parser, soup[q]) # NoArticle}
        PosOf(k) == CHOOSE q \in KeptPos : Cardinality({r \in KeptPos : r <= q}) = k
        Alone(p) ==
            IF parser = "boe_parser_new" THEN ParseArticleWith(parser, soup[p])
            ELSE ParseArticleWith(parser, soup[p])
                 @@ [heading_context |->
                        SelectSeq(UpdateHeadingStack(<<>>, soup, p),
                                  LAMBDA h : h # NoneText)]
    IN  \A k \in DOMAIN articles : articles[k] = Alone(PosOf(k))

----------------------------------------------------------------------------
(* The structurers run on article bodies of a few lines.                   *)

MaxParaLines == 4

\* the lines bodies are made of: a numbered item, two lettered items, an
\* ordinal clause, unmarked sentences of three and of four words, a term
\* with its definition, and a term alone on its line
ParaLines ==
    { <<"1", DASH, SP, "x">>,
      <<"a", DASH, SP, "x">>,
      <<"b", DASH, SP, "y">>,
      OrdinalWord \o <<COLON, SP, "x">>,
      <<"x", SP, "y", SP, "t">>,
      <<"x", SP, "y", SP, "t", SP, "x">>,
      <<"x", "y", COLON, SP, "t">>,
      <<"x", "y", COLON>> }

ParaTexts == {JoinLines(ls) : ls \in SeqsUpTo(ParaLines, MaxParaLines)}

TextPathStructurers ==
    {"extract_all_boe._paras_from_text", "extract_folder1_laws._paras_from_text",
     "extract_paragraphs"}

Structurers == TextPathStructurers \cup {"extract_paragraphs_from_html"}

StructureWith(fn, text) ==
    CASE fn = "extract_all_boe._paras_from_text" -> _paras_from_text(text)
      [] fn = "extract_folder1_laws._paras_from_text" -> _paras_from_text_folder1(text)
      [] fn = "extract_paragraphs" -> extract_paragraphs(text)
      [] fn = "extract_paragraphs_from_html" -> extract_paragraphs_from_html(text)

InitParas ==
    /\ structurer \in Structurers
    /\ body_text \in ParaTexts
    /\ paras = <<>>
    /\ pc = "structure"
    /\ ApplyIdle
    /\ OrdinalIdle
    /\ LawIdle
    /\ PopupIdle
    /\ MainIdle
    /\ DomIdle

StructureBody ==
    /\ pc = "structure"
    /\ paras' = StructureWith(structurer, body_text)
    /\ pc' = "structured"
    /\ UNCHANGED <<structurer, body_text, notParasVars>>

NextParas == StructureBody

SpecParas == InitParas /\ [][NextParas]_vars

\* C12 (as claimed): the text-path structurers turn every line that starts
\* with a numeral and a dash into a level-1 paragraph whose marker is the
\* numeral immediately followed by '-', and every line that starts with a
\* single letter and a dash into a level-2 paragraph whose marker is the
\* letter immediately followed by '-', in line order.
C12_ItemMarkersAndLevels ==
    LET ItemMarkerEnd(line) ==
            LET e == IF SkipDigits(line, 1) > 1 THEN SkipDigits(line, 1)
                     ELSE IF line # <<>> /\ line[1] \in SingleLetters THEN 2
                     ELSE 0
                s == SkipSpace(line, e)
            IN  IF e > 0 /\ s <= Len(line) /\ line[s] = DASH THEN e ELSE 0
        IsItemLine(line) == ItemMarkerEnd(line) > 0
        ClaimedItem(line) ==
            <<SubSeq(line, 1, ItemMarkerEnd(line) - 1) \o <<DASH>>,
              IF line[1] \in Digits THEN 1 ELSE 2>>
        EndsWithDash(p) == p.marker # <<>> /\ p.marker[Len(p.marker)] = DASH
        items == SelectSeq(StrippedLines(body_text), IsItemLine)
        dashed == SelectSeq(paras, EndsWithDash)
    IN  (pc = "structured" /\ structurer \in TextPathStructurers) =>
            [k \in DOMAIN dashed |-> <<dashed[k].marker, dashed[k].level>>]
                = [k \in DOMAIN items |-> ClaimedItem(items[k])]

\* C13 (as claimed): when more than two lines of a body have the form
\* 'term: definition' (at most three words before the colon, a non-empty
\* remainder), extract_paragraphs and extract_paragraphs_from_html give each
\* of them one level-0 paragraph with marker term + ':' and the definition
\* as text, also when there are exactly three such lines.
C13_DefinitionsList ==
    LET IsTermDefinition(line) ==
            /\ \E i \in DOMAIN line : line[i] = COLON
            /\ WordCount(SplitOnce(line)[1]) \in 1..3
            /\ Strip(SplitOnce(line)[2]) # <<>>
        ClaimedDefinition(line) ==
            Paragraph(Strip(SplitOnce(line)[1]) \o <<COLON>>,
                      Strip(SplitOnce(line)[2]), 0)
        EndsWithColon(p) == p.marker # <<>> /\ p.marker[Len(p.marker)] = COLON
        terms == SelectSeq(StrippedLines(body_text), IsTermDefinition)
    IN  (/\ pc = "structured"
         /\ structurer \in {"extract_paragraphs", "extract_paragraphs_from_html"}
         /\ Len(terms) > 2) =>
            SelectSeq(paras, EndsWithColon)
                = [k \in DOMAIN terms |-> ClaimedDefinition(terms[k])]

\* C20 (as claimed): in every text-path structurer a line that starts with
\* an ordinal word becomes a level-0 paragraph whose marker is the word
\* ending with ':', and the markers of numbered and lettered paragraphs end
\* with '-'.
C20_OrdinalClausesLevelZero ==
    LET IsOrdinalLine(line) == HasPrefixAt(line, 1, <<"o">>)
        IsOrdinalPara(p) == HasPrefixAt(p.marker, 1, <<"o">>)
        IsItemPara(p) ==
            p.marker # <<>> /\ p.marker[1] \in Digits \cup SingleLetters /\ p.level > 0
        ordinals == SelectSeq(StrippedLines(body_text), IsOrdinalLine)
        found == SelectSeq(paras, IsOrdinalPara)
    IN  (pc = "structured" /\ structurer \in TextPathStructurers) =>
            /\ [k \in DOMAIN found |-> <<found[k].marker, found[k].level>>]
                   = [k \in DOMAIN ordinals |-> <<OrdinalWord \o <<COLON>>, 0>>]
            /\ \A k \in DOMAIN paras :
                   IsItemPara(paras[k]) => paras[k].marker[Len(paras[k].marker)] = DASH

\* C27: in the definitions mode of extract_paragraphs every line of the
\* body contributes to at most one paragraph: a text is the text of no more
\* paragraphs than there are lines with that text, so a line taken as the
\* definition of a term is not emitted again as an unmarked paragraph.
C27_LineUsedOnce ==
    LET lines == StrippedLines(body_text)
        terms == {i \in DOMAIN lines : definition_pattern(lines[i])}
        Uses(line) == Cardinality({k \in DOMAIN paras : paras[k].text = line})
        Has(line) == Cardinality({i \in DOMAIN lines : lines[i] = line})
    IN  (/\ pc = "structured"
         /\ structurer = "extract_paragraphs"
         /\ Cardinality(terms) > 2) =>
            \A k \in DOMAIN paras :
                paras[k].text # <<>> => Uses(paras[k].text) <= Has(paras[k].text)

----------------------------------------------------------------------------
(* The paragraphs of a text container on the DOM path of the extraction    *)
(* scripts: _parse_li, _paras_from_container and the cross-check of        *)
(* _parse_article.  A child of the container is a string or an ol, ul or   *)
(* table element; a list item is the sequence of its lines between <br>    *)
(* tags, a table the sequence of its rows of cells.                        *)

TextChild(text) == [kind |-> "text", text |-> text]
ListChild(kind, items) == [kind |-> kind, items |-> items]
TableChild(table_rows) == [kind |-> "table", table_rows |-> table_rows]

\* _container_to_text for an element with these children: a tag becomes a
\* space, </li> and </tr> a newline and an opening td two spaces, and the
\* text that is left is cleaned
ContainerText(nodes) ==
    LET InnerText(child) ==
            CASE child.kind = "text" -> child.text
              [] child.kind \in {"ol", "ul"} ->
                    <<SP>> \o Flatten([k \in DOMAIN child.items |->
                                          <<SP>> \o JoinLines(child.items[k]) \o <<NL>>])
                           \o <<SP>>
              [] child.kind = "table" ->
                    <<SP>>
                    \o Flatten([r \in DOMAIN child.table_rows |->
                                   <<SP>> \o Flatten([c \in DOMAIN child.table_rows[r] |->
                                                         <<SP, SP>> \o child.table_rows[r][c]
                                                             \o <<SP>>])
                                          \o <<NL>>])
                    \o <<SP>>
    IN  _clean(Flatten([k \in DOMAIN nodes |-> InnerText(nodes[k])]))

\* _parse_li of the script for the item with index li_index: its lines are
\* split again before every letter marker that follows whitespace
_parse_li(script, item, li_index) ==
    LET lines == StrippedLines(_clean(JoinLines(item)))
        MarkerAt(line, i) ==
            /\ i = 1 \/ IsSpace(line[i - 1])
            /\ LET b == AfterParen(line, i, "(")
                   ends == LetterEnd(line, b) \o JeemEnd(line, b)
               IN  \E k \in DOMAIN ends :
                       LET s == SkipSpace(line, AfterParen(line, ends[k], ")"))
                       IN  s <= Len(line) /\ line[s] \in {DASH, "."}
        Parts(line) ==
            LET cuts == {i \in 2..Len(line) : MarkerAt(line, i)}
                starts == InOrder({1} \cup cuts)
            IN  [k \in DOMAIN starts |->
                    Strip(SubSeq(line, starts[k],
                                 IF k < Len(starts) THEN starts[k + 1] - 1 ELSE Len(line)))]
        all_lines == SelectSeq(Flatten([k \in DOMAIN lines |-> Parts(lines[k])]), NonEmpty)
        SubItem(line, plain_level) ==
            IF _RE_LET(line).ok
            THEN <<Paragraph(_make_marker(_RE_LET(line).group1, TRUE),
                             Strip(_RE_LET(line).group2), 2)>>
            ELSE IF _RE_NUM(line).ok
            THEN <<Paragraph(_make_marker(_RE_NUM(line).group1, TRUE),
                             Strip(_RE_NUM(line).group2), 2)>>
            ELSE IF Len(line) > 5 THEN <<Paragraph(<<>>, line, plain_level)>>
            ELSE <<>>
        first_line == all_lines[1]
        \* str(idx); a list has at most two items
        str_idx == IF li_index = 1 THEN <<"1">> ELSE <<"2">>
        RStripColon(t) == IF t # <<>> /\ t[Len(t)] = COLON
                          THEN SubSeq(t, 1, Len(t) - 1) ELSE t
        main ==
            IF script = "extract_folder1_laws"
            THEN Paragraph(str_idx \o <<DASH>>, Strip(RStripColon(first_line)), 1)
            ELSE IF _RE_ORD(first_line).ok
            THEN Paragraph(Strip(_RE_ORD(first_line).group1) \o <<COLON>>,
                           Strip(_RE_ORD(first_line).group2), 0)
            ELSE IF _RE_NUM(first_line).ok
            THEN Paragraph(_make_marker(_RE_NUM(first_line).group1, TRUE),
                           Strip(_RE_NUM(first_line).group2), 1)
            ELSE Paragraph(_make_marker(str_idx, TRUE), first_line, 1)
        rest_level == IF script = "extract_folder1_laws" THEN 2 ELSE 1
    IN  IF all_lines = <<>> THEN <<>>
        ELSE IF _RE_LET(first_line).ok
        THEN Flatten([k \in DOMAIN all_lines |-> SubItem(all_lines[k], 2)])
        ELSE <<main>> \o Flatten([k \in 1..(Len(all_lines) - 1) |->
                                     SubItem(all_lines[k + 1], rest_level)])

\* the rows a table child gives: the non-empty cleaned cells of every row
\* that has one
TableRows(child) ==
    SelectSeq([r \in DOMAIN child.table_rows |->
                  SelectSeq([c \in DOMAIN child.table_rows[r] |->
                                _clean(Strip(child.table_rows[r][c]))], NonEmpty)],
              NonEmpty)

_paras_from_container(script, nodes) ==
    LET IsList(child) ==
            child.kind = "ol" \/ (script = "extract_all_boe" /\ child.kind = "ul")
        OfChild(child) ==
            IF IsList(child)
            THEN Flatten([k \in DOMAIN child.items |-> _parse_li(script, child.items[k], k)])
            ELSE IF child.kind = "table" /\ TableRows(child) # <<>>
            THEN <<Paragraph(<<>>, <<>>, 0)
                       @@ [type |-> "table", table_rows |-> TableRows(child)]>>
            ELSE <<>>
        ol_paras == Flatten([k \in DOMAIN nodes |-> OfChild(nodes[k])])
        has_ol == \E k \in DOMAIN nodes : IsList(nodes[k]) \/ nodes[k].kind = "table"
        stops == {k \in DOMAIN nodes : nodes[k].kind \in {"ol", "table"}}
        before == IF stops = {} THEN Len(nodes) ELSE Min(stops) - 1
        after == IF stops = {} THEN 0 ELSE Max(stops)
        PartOf(child) == Strip(ContainerText(<<child>>))
        TextPath(text) == IF script = "extract_all_boe" THEN _paras_from_text(text)
                          ELSE _paras_from_text_folder1(text)
        Long(t) == Len(t) > 3
        intro_parts == SelectSeq([k \in 1..before |-> PartOf(nodes[k])], Long)
        after_parts ==
            SelectSeq([k \in 1..(Len(nodes) - after) |-> PartOf(nodes[after + k])], Long)
        OfParts(parts) == IF parts = <<>> THEN <<>> ELSE TextPath(JoinLines(parts))
    IN  IF has_ol /\ ol_paras # <<>>
        THEN OfParts(intro_parts) \o ol_paras \o OfParts(after_parts)
        ELSE TextPath(ContainerText(nodes))

\* sum(len(p["text"]) for p in paragraphs)
RECURSIVE TextLength(_)
TextLength(list) ==
    IF list = <<>> THEN 0 ELSE Len(Head(list).text) + TextLength(Tail(list))

MaxChildren == 3

\* list items: a plain one, one with a lettered sub-line, one whose first
\* line is lettered, and one with a lettered item inside its line
PlainItem == <<<<"y", "y", "y", "y", "y", "y">>>>
ItemWithLetter == <<<<"x", "x", "x", "x", COLON>>, <<"a", DASH, SP, "x">>>>
LetterFirstItem == <<<<"a", DASH, SP, "x">>>>
ItemWithInnerLetter == <<<<"t", "t", "t", "t", SP, "b", DASH, SP, "y">>>>

\* the children containers are made of: a string, ordered lists, an
\* unordered list, a table with an empty cell and a table of empty cells
Children ==
    { TextChild(<<"t", "t", "t", "t">>),
      ListChild("ol", <<ItemWithLetter>>),
      ListChild("ol", <<LetterFirstItem, PlainItem>>),
      ListChild("ol", <<ItemWithInnerLetter>>),
      ListChild("ul", <<PlainItem>>),
      TableChild(<< <<<<"x">>, <<>>>>, <<<<"y">>, <<"t">>>> >>),
      TableChild(<< <<<<>>>> >>) }

InitDom ==
    /\ dom_script \in {"extract_all_boe", "extract_folder1_laws"}
    /\ hc_children \in SeqsUpTo(Children, MaxChildren)
    /\ dom_paras = <<>>
    /\ pc = "container"
    /\ ApplyIdle
    /\ OrdinalIdle
    /\ LawIdle
    /\ PopupIdle
    /\ ParasIdle
    /\ MainIdle

\* paragraphs = _paras_from_container(hc)
ParasFromContainer ==
    /\ pc = "container"
    /\ dom_paras' = _paras_from_container(dom_script, hc_children)
    /\ pc' = "dom"
    /\ UNCHANGED <<dom_script, hc_children, notDomVars>>

\* the text path replaces the paragraphs of the DOM path when their text is
\* shorter than half of text_path_a
CrossCheck ==
    /\ pc = "dom"
    /\ LET text_path_a == ContainerText(hc_children)
           dom_len == TextLength(dom_paras)
       IN  dom_paras' = IF text_path_a # <<>> /\ 2 * dom_len < Len(text_path_a)
                        THEN IF dom_script = "extract_all_boe"
                             THEN _paras_from_text(text_path_a)
                             ELSE _paras_from_text_folder1(text_path_a)
                        ELSE dom_paras
    /\ pc' = "checked"
    /\ UNCHANGED <<dom_script, hc_children, notDomVars>>

NextDom == ParasFromContainer \/ CrossCheck

SpecDom == InitDom /\ [][NextDom]_vars

\* C21: every table that is a direct child of the container and has a
\* non-empty cell is, in the final paragraphs of the article, exactly one
\* paragraph of type table that carries its rows in order.
C21_TablesKept ==
    LET IsTable(child) == child.kind = "table" /\ TableRows(child) # <<>>
        IsTablePara(p) == "type" \in DOMAIN p /\ p.type = "table"
        tables == SelectSeq(hc_children, IsTable)
        found == SelectSeq(dom_paras, IsTablePara)
    IN  pc = "checked" =>
            [k \in DOMAIN found |-> found[k].table_rows]
                = [k \in DOMAIN tables |-> TableRows(tables[k])]

\* C22: for a container that is one ordered list, every item gives a
\* level-1 paragraph as the first paragraph of the item, and every later
\* line of the item that matches the letter pattern gives a level-2
\* paragraph after it and before the paragraphs of the next item.
C22_ItemsLevelOne ==
    LET items == hc_children[1].items
        ones == InOrder({k \in DOMAIN dom_paras : dom_paras[k].level = 1})
        Segment(i) ==
            SubSeq(dom_paras, ones[i],
                   IF i < Len(ones) THEN ones[i + 1] - 1 ELSE Len(dom_paras))
        SubLines(i) == [k \in 1..(Len(items[i]) - 1) |-> Strip(items[i][k + 1])]
    IN  (pc = "dom" /\ Len(hc_children) = 1 /\ hc_children[1].kind = "ol") =>
            /\ Len(ones) = Len(items)
            /\ dom_paras[1].level = 1
            /\ \A i \in DOMAIN items :
                   \A k \in DOMAIN SubLines(i) :
                       _RE_LET(SubLines(i)[k]).ok =>
                           \E n \in 2..Len(Segment(i)) :
                               /\ Segment(i)[n].level = 2
                               /\ Segment(i)[n].text = Strip(_RE_LET(SubLines(i)[k]).group2)

\* C28: the paragraphs of _paras_from_container hold the text of every
\* child once: their summed text length does not exceed the length of the
\* plain text of the container, and a string that stands between the
\* children is the text of a paragraph.
C28_ChildrenOnce ==
    pc = "dom" =>
        /\ TextLength(dom_paras) <= Len(ContainerText(hc_children))
        /\ \A k \in DOMAIN hc_children :
               hc_children[k].kind = "text" =>
                   \E n \in DOMAIN dom_paras :
                       Contains(dom_paras[n].text, _clean(hc_children[k].text))

----------------------------------------------------------------------------
(* main of extract_all_boe.py: the folders are read in sequence, the laws  *)
(* of a folder that have no output file yet are extracted one by one, and  *)
(* the state is saved.  A folder page is the sequence of the law ids of    *)
(* its links; a request succeeds or fails.                                 *)

MaxFolders == 2

LawIds == {"a1", "b2"}

\* the folder pages of the site: a law may be linked twice on a page and
\* on the pages of several folders
FolderPages == {<<>>, <<"a1">>, <<"a1", "b2">>, <<"a1", "a1">>, <<"b2", "a1">>}

\* every link of the page, also one whose id was seen before
_get_folder_laws_all_links(page) == page

\* _get_folder_laws: the ids of the links of the page, each one once, in
\* the order of their first link
_get_folder_laws(page) ==
    LET First(i) == \A j \in 1..(i - 1) : page[j] # page[i]
    IN  [k \in DOMAIN InOrder({i \in DOMAIN page : First(i)}) |->
            page[InOrder({i \in DOMAIN page : First(i)})[k]]]

\* _load_state, the files of LAWS_DIR and the arguments at the start of main
InitMain ==
    /\ listings \in UNION {[1..n -> FolderPages] : n \in 1..MaxFolders}
    /\ files \in {{}, {"a1"}}
    /\ existing_ids = files
    /\ state \in {[extracted |-> <<>>, errors |-> <<>>, last_folder |-> 0],
                  [extracted |-> <<"a1">>, errors |-> <<"b2">>, last_folder |-> 1]}
    /\ state_file = state
    /\ limit \in {0, 1}
    /\ folder = 1
    /\ to_extract = <<>>
    /\ law_i = 0
    /\ total_extracted = 0
    /\ total_errors = 0
    /\ total_skipped = 0
    /\ pc = "folder"
    /\ ApplyIdle
    /\ OrdinalIdle
    /\ LawIdle
    /\ PopupIdle
    /\ ParasIdle
    /\ DomIdle

\* the head of the loop over folders when the folder page is read: the laws
\* without an output file are kept, at most args.limit of them
FetchFolder ==
    /\ pc = "folder"
    /\ folder <= Len(listings)
    /\ LET all_laws == _get_folder_laws(listings[folder])
           NotExisting(id) == id \notin existing_ids
           missing == SelectSeq(all_laws, NotExisting)
           kept == IF limit # 0 THEN SubSeq(missing, 1, Min({limit, Len(missing)}))
                   ELSE missing
       IN  /\ total_skipped' = total_skipped + (Len(all_laws) - Len(missing))
           /\ to_extract' = kept
           /\ IF kept = <<>>
              THEN folder' = folder + 1 /\ law_i' = law_i /\ pc' = pc
              ELSE folder' = folder /\ law_i' = 1 /\ pc' = "laws"
    /\ UNCHANGED <<listings, files, existing_ids, state, state_file, limit,
                   total_extracted, total_errors, notMainVars>>

\* _get_folder_laws raised: the folder is counted as an error and skipped
FetchFolderError ==
    /\ pc = "folder"
    /\ folder <= Len(listings)
    /\ total_errors' = total_errors + 1
    /\ folder' = folder + 1
    /\ UNCHANGED <<listings, files, existing_ids, state, state_file, limit, to_extract,
                   law_i, total_extracted, total_skipped, pc, notMainVars>>

\* one pass of the loop over to_extract: _extract_one writes the output file
\* and returns the law, or returns None; the state is saved after every
\* tenth law
ExtractOne ==
    /\ pc = "laws"
    /\ law_i <= Len(to_extract)
    /\ \E d \in {"law", "None"} :
           LET id == to_extract[law_i]
               appended ==
                   IF d = "law"
                   THEN [state EXCEPT !.extracted = Append(@, id)]
                   ELSE [state EXCEPT !.errors = Append(@, id)]
               saved == law_i % 10 = 0
           IN  /\ files' = IF d = "law" THEN files \cup {id} ELSE files
               /\ existing_ids' = IF d = "law" THEN existing_ids \cup {id}
                                  ELSE existing_ids
               /\ total_extracted' = total_extracted + (IF d = "law" THEN 1 ELSE 0)
               /\ total_errors' = total_errors + (IF d = "law" THEN 0 ELSE 1)
               /\ state' = IF saved THEN [appended EXCEPT !.last_folder = folder]
                           ELSE appended
               /\ state_file' = IF saved THEN state' ELSE state_file
    /\ law_i' = law_i + 1
    /\ UNCHANGED <<listings, limit, folder, to_extract, total_skipped, pc, notMainVars>>

\* after the laws of a folder: last_folder is set and the state is saved
EndFolder ==
    /\ pc = "laws"
    /\ law_i > Len(to_extract)
    /\ state' = [state EXCEPT !.last_folder = folder]
    /\ state_file' = state'
    /\ folder' = folder + 1
    /\ pc' = "folder"
    /\ UNCHANGED <<listings, files, existing_ids, limit, to_extract, law_i,
                   total_extracted, total_errors, total_skipped, notMainVars>>

\* after the last folder
EndMain ==
    /\ pc = "folder"
    /\ folder > Len(listings)
    /\ pc' = "done"
    /\ UNCHANGED <<mainVars, notMainVars>>

NextMain == FetchFolder \/ FetchFolderError \/ ExtractOne \/ EndFolder \/ EndMain

SpecMain == InitMain /\ [][NextMain]_vars

\* the ids appended to state['extracted'] in this run
ExtractedInRun ==
    SubSeq(state.extracted, Len(state.extracted) - total_extracted + 1,
           Len(state.extracted))

\* C30: in one run of main a law that has an output file, from the start or
\* from an extraction of this run, is not fetched again, also when several
\* folders list it; every attempt appends the id to exactly one of
\* state['extracted'] and state['errors'], and no id is appended to
\* state['extracted'] twice in a run.
C30_NoRefetch ==
    /\ [][ExtractOne =>
            /\ to_extract[law_i] \notin files
            /\ \/ /\ state'.extracted = Append(state.extracted, to_extract[law_i])
                  /\ state'.errors = state.errors
               \/ /\ state'.errors = Append(state.errors, to_extract[law_i])
                  /\ state'.extracted = state.extracted]_vars
    /\ [](pc \in {"folder", "laws", "done"} =>
            \A i, j \in DOMAIN ExtractedInRun :
                ExtractedInRun[i] = ExtractedInRun[j] => i = j)

\* a law listed by two folders was extracted in the first one and is not in
\* to_extract for the second
C30_Witness ==
    /\ pc = "laws"
    /\ folder = 2
    /\ to_extract = <<"b2">>
    /\ listings[2] = <<"b2", "a1">>
    /\ \E i \in DOMAIN ExtractedInRun : ExtractedInRun[i] = "a1"
    /\ total_skipped = 1

====
